---- MODULE Spec2Model ----
(***************************************************************************)
(* A model of the GreenAcquisition scripts: the retry loop around the      *)
(* market-data client, the per-row fetch loops that save their progress,  *)
(* the Green/Brown classification and the table merges.                   *)
(*                                                                         *)
(* Times are in tenths of a second.  A sleep is recorded as its            *)
(* non-random part (fixed) and the range lo..hi of its random part.        *)
(***************************************************************************)
EXTENDS Integers, Sequences, FiniteSets, TLC

VARIABLES
    \* ---- get_stock_data_with_retry, one run per copy of the function ----
    max_retries,   \* the max_retries argument
    oracle,        \* what ticker_obj.history does on its n-th call: TRUE returns, FALSE raises
    attempt,       \* [copy -> the loop variable]
    rpc,           \* [copy -> "loop" | "done"]
    calls,         \* [copy -> number of ticker_obj.history calls made]
    waits,         \* [copy -> the sleeps made so far, in order]
    ret,           \* [copy -> "running" | "data" | "None" | "raised"]
    failed,        \* [copy -> number of calls that raised]
    \* ---- the per-row loop of a fetch script ----
    script,        \* "metrics" (fetch_financial_metrics.main) | "prices" (DATACOLLECTION script)
    nrows,         \* number of rows of the input file
    index,         \* the row the loop is at, 1..nrows; nrows + 1 after the loop
    dfStatus,      \* the Status / Price_Status column of the in-memory table
    csv,           \* the saved file: whether this run wrote it, and the status column it holds
    spc,           \* "loop" | "done" (the closing messages are printed)
    \* ---- classify_target_by_keywords, one call ----
    kwVersion,     \* the script the function is taken from
    target_name,   \* the argument: a string cell or a missing value
    target_class,  \* "pending", then the label returned
    \* ---- the classification scripts ----
    cscript,       \* "greenbrown" | "GB": the script whose main runs
    infile,        \* the CSV main reads: [cols, rows], a row maps each column to a cell
    outfile,       \* the CSV main writes: [written, cols, rows]
    divided,       \* the rows whose carbon intensity was computed by a division
    carbon,        \* the call of classify_by_carbon_intensity: [called, labels, p25]
    cpc,           \* "start" | "done"
    \* ---- fetch_stock_prices.main (data_collection) on the classified file ----
    futures,       \* the rows submitted to the executor and not yet completed
    results,       \* the results collected, in the order the workers completed
    base_df,       \* the output file: [written, status], the status column by row
    hpc,           \* "wait" | "fetch" | "saved" | "failed"
    \* ---- process_ghg_data, one call ----
    ghg_data,      \* the GHG table passed in: rows of ticker, periodenddate, GHG_Emissions
    deals_data,    \* the deals table passed in: rows of ticker, Deal Announce Date
    merged_data,   \* the table returned
    mpc,           \* "start" | "done"
    \* ---- merge_raw_all_sources.main ----
    ma_csv,        \* bloomberg_ma_with_tickers.csv: rows of Ticker, Announce Date, Target Name
    ghg_csv,       \* ghg.csv: rows of Ticker, periodenddate, GHG_Emissions
    sales_csv,     \* sales_data_bbg.csv: rows of ticker, Year, sales
    merged_csv,    \* master_data_merged.csv: [written, cols, rows]
    apc,           \* "start" | "done"
    \* ---- clean_master_data ----
    master_csv,    \* master_data.csv: [cols, rows]
    cleaned_csv,   \* master_data_cleaned.csv: [written, rows]
    kpc,           \* "start" | "done" | "raised"
    \* ---- standardize_data, one call ----
    std_df,        \* the table passed in: [columns, values, nrows], a column holding one value in every row
    day_value,     \* the day_value argument
    df_standardized,\* the table returned: [returned, columns, values, nrows]
    tpc,           \* "start" | "done"
    \* ---- event study: abnormal returns ----
    stock_data,    \* the deals as load_data returns them
    benchmark_data,\* the benchmark observations as load_data returns them
    abnormal_results,\* the tables calculate_abnormal_returns returns, by group
    epc,           \* position of the event study
    \* ---- fetch_stock_prices.py: main with an output file of an earlier run ----
    new_df,        \* master_data_classified.csv as read: its rows
    existing_df,   \* the output file of an earlier run: [exists, rows]
    workers,       \* --workers
    companies_to_process,\* the companies submitted and not yet started, in order
    running,       \* the companies a worker is busy with
    fetched,       \* the results, in the order the futures completed
    output_file,   \* the output file after the run: [written, rows]
    message,       \* what main printed on an early return
    fpc,           \* position of main
    \* ---- fetch_stock_prices.py: one call of process_company ----
    row_data,      \* the (index, row) process_company is called with
    lookups,       \* what the lookups of the call came to
    company_out,   \* [returned, result]: what the call returned
    ppc,           \* position of the call
    \* ---- fetch_stock_prices.py: one call of get_nearest_trading_day ----
    probe_copy,    \* the copy of the script the call runs in
    direction,     \* "backward" | "forward"
    start_day,     \* the day get_valid_date gave, as a day number
    current_date,  \* the day probed, as a day number
    probe_i,       \* i of the loop: the probes finished
    retry_attempt, \* attempt of get_stock_data_with_retry within the probe
    history_calls, \* the calls of ticker_obj.history made
    found,         \* a history call returned a table that is not empty
    nearest,       \* [returned, value]: what the call returned
    gpc,           \* position of the call
    \* ---- get_nearest_trading_day: the days Yahoo Finance has data for ----
    trading_days,  \* the days ticker_obj.history has rows for
    npc,           \* "idle" | "search": whether the search over these days runs
    \* ---- event study: the statistics of the groups ----
    carbon_intensity,\* the Carbon_Intensity column of stock_data, by row; <<>> without the column
    analysis_results,\* what perform_comprehensive_analysis returns, by group
    heteroskedasticity_results,\* the deals perform_heteroskedasticity_tests regresses on, by group
    xpc            \* position of the analysis

retryVars == <<max_retries, oracle, attempt, rpc, calls, waits, ret, failed>>

scriptVars == <<script, nrows, index, dfStatus, csv, spc>>

kwVars == <<kwVersion, target_name, target_class>>

classVars == <<cscript, infile, outfile, divided, carbon, cpc>>

handoffVars == <<futures, results, base_df, hpc>>

mergeVars == <<ghg_data, deals_data, merged_data, mpc>>

rawVars == <<ma_csv, ghg_csv, sales_csv, merged_csv, apc>>

cleanVars == <<master_csv, cleaned_csv, kpc>>

stdVars == <<std_df, day_value, df_standardized, tpc>>

eventVars == <<stock_data, benchmark_data, abnormal_results, epc>>

fetchVars == <<new_df, existing_df, workers, companies_to_process, running, fetched, output_file, message, fpc>>

companyVars == <<row_data, lookups, company_out, ppc>>

probeVars == <<probe_copy, direction, start_day, current_date, probe_i, retry_attempt, history_calls, found, nearest, gpc>>

nearestVars == <<trading_days, npc>>

analysisVars == <<carbon_intensity, analysis_results, heteroskedasticity_results, xpc>>

vars == <<retryVars, scriptVars, kwVars, classVars, handoffVars, mergeVars, rawVars, cleanVars, stdVars, eventVars, fetchVars, companyVars, probeVars, nearestVars, analysisVars>>

\* The components a specification does not run stay as they are here.
RetryIdle ==
    /\ max_retries = 0
    /\ oracle = <<>>
    /\ attempt = <<>>
    /\ rpc = <<>>
    /\ calls = <<>>
    /\ waits = <<>>
    /\ ret = <<>>
    /\ failed = <<>>

ScriptIdle ==
    /\ script = "none"
    /\ nrows = 0
    /\ index = 0
    /\ dfStatus = <<>>
    /\ csv = [written |-> FALSE, status |-> <<>>]
    /\ spc = "idle"

KwIdle ==
    /\ kwVersion = "none"
    /\ target_name = 0
    /\ target_class = "idle"

ClassIdle ==
    /\ cscript = "none"
    /\ infile = [cols |-> {}, rows |-> <<>>]
    /\ outfile = [written |-> FALSE, cols |-> {}, rows |-> <<>>]
    /\ divided = <<>>
    /\ carbon = [called |-> FALSE, labels |-> <<>>, p25 |-> 0]
    /\ cpc = "idle"

HandoffIdle ==
    /\ futures = {}
    /\ results = <<>>
    /\ base_df = [written |-> FALSE, status |-> <<>>]
    /\ hpc = "idle"

MergeIdle ==
    /\ ghg_data = <<>>
    /\ deals_data = <<>>
    /\ merged_data = <<>>
    /\ mpc = "idle"

RawIdle ==
    /\ ma_csv = <<>>
    /\ ghg_csv = <<>>
    /\ sales_csv = <<>>
    /\ merged_csv = [written |-> FALSE, cols |-> {}, rows |-> <<>>]
    /\ apc = "idle"

CleanIdle ==
    /\ master_csv = [cols |-> {}, rows |-> <<>>]
    /\ cleaned_csv = [written |-> FALSE, rows |-> <<>>]
    /\ kpc = "idle"

StdIdle ==
    /\ std_df = [columns |-> <<>>, values |-> <<>>, nrows |-> 0]
    /\ day_value = 0
    /\ df_standardized = [returned |-> FALSE, columns |-> <<>>, values |-> <<>>, nrows |-> 0]
    /\ tpc = "idle"

EventIdle ==
    /\ stock_data = <<>>
    /\ benchmark_data = <<>>
    /\ abnormal_results = [returned |-> FALSE, groups |-> <<>>]
    /\ epc = "idle"

FetchIdle ==
    /\ new_df = <<>>
    /\ existing_df = [exists |-> FALSE, rows |-> <<>>]
    /\ workers = 0
    /\ companies_to_process = <<>>
    /\ running = {}
    /\ fetched = <<>>
    /\ output_file = [written |-> FALSE, rows |-> <<>>]
    /\ message = ""
    /\ fpc = "idle"

CompanyIdle ==
    /\ row_data = <<>>
    /\ lookups = <<>>
    /\ company_out = [returned |-> FALSE, result |-> <<>>]
    /\ ppc = "idle"

ProbeIdle ==
    /\ probe_copy = "none"
    /\ direction = "none"
    /\ start_day = 0
    /\ current_date = 0
    /\ probe_i = 0
    /\ retry_attempt = 0
    /\ history_calls = 0
    /\ found = FALSE
    /\ nearest = [returned |-> FALSE, value |-> [t |-> "none", v |-> 0]]
    /\ gpc = "idle"

NearestIdle ==
    /\ trading_days = {}
    /\ npc = "idle"

AnalysisIdle ==
    /\ carbon_intensity = <<>>
    /\ analysis_results = <<>>
    /\ heteroskedasticity_results = <<>>
    /\ xpc = "idle"

(***************************************************************************)
(* get_stock_data_with_retry                                               *)
(***************************************************************************)

\* The three copies of get_stock_data_with_retry.
Copies == {"metrics", "legacy", "collection"}

\* max_retries=3, the default every caller uses.
DefaultMaxRetries == 3

\* The largest max_retries argument tried.
MaxRetriesArg == 4

RECURSIVE Pow2(_)
Pow2(n) == IF n = 0 THEN 1 ELSE 2 * Pow2(n - 1)

\* A pre-attempt delay of 1.5 + random() in one copy, as the delay used elsewhere
\* in the data_collection script.
PreDelaySkewed(copy) ==
    IF copy = "collection"
    THEN [kind |-> "pre", fixed |-> 15, lo |-> 0, hi |-> 10]
    ELSE [kind |-> "pre", fixed |-> 10, lo |-> 0, hi |-> 10]

\* The sleep before every history call: random.uniform(1.0, 2.0), which is
\* 1.0 + (2.0 - 1.0) * random(), and 1.0 + random() in the data_collection copy.
PreDelay(copy) ==
    IF copy = "collection"
    THEN [kind |-> "pre", fixed |-> 10, lo |-> 0, hi |-> 10]
    ELSE [kind |-> "pre", fixed |-> 10, lo |-> 0, hi |-> 10]

\* A backoff that does not grow with the attempt number.
BackoffFlat(copy, att) ==
    IF copy = "collection"
    THEN [kind |-> "backoff", fixed |-> 20, lo |-> 0, hi |-> 20]
    ELSE [kind |-> "backoff", fixed |-> 10, lo |-> 1, hi |-> 5]

\* The sleep after a failed attempt that is not the last:
\* (2 ** attempt) + random.uniform(0.1, 0.5), and
\* 2.0 * (2 ** attempt) + random.random() * 2 in the data_collection copy.
Backoff(copy, att) ==
    IF copy = "collection"
    THEN [kind |-> "backoff", fixed |-> 20 * Pow2(att), lo |-> 0, hi |-> 20]
    ELSE [kind |-> "backoff", fixed |-> 10 * Pow2(att), lo |-> 1, hi |-> 5]

\* ticker_obj.history on its n-th call of this run.
HistoryReturns(n) == n <= Len(oracle) /\ oracle[n]

\* A copy that gives up at the first exception instead of retrying.
AfterHistoryNoRetry(ok, att, maxr) ==
    IF ok THEN "return_data" ELSE "return_none"

\* What one pass of the loop body does once history has returned or raised:
\* the try returns the data; the except returns None on the last attempt and
\* backs off otherwise.  ("raise" would let the exception out of the function.)
AfterHistory(ok, att, maxr) ==
    IF ok THEN "return_data"
    ELSE IF att = maxr - 1 THEN "return_none"
    ELSE "backoff"

InitRetry ==
    /\ max_retries \in 0..MaxRetriesArg
    /\ oracle \in [1..MaxRetriesArg -> BOOLEAN]
    /\ attempt = [c \in Copies |-> 0]
    /\ rpc = [c \in Copies |-> "loop"]
    /\ calls = [c \in Copies |-> 0]
    /\ waits = [c \in Copies |-> <<>>]
    /\ ret = [c \in Copies |-> "running"]
    /\ failed = [c \in Copies |-> 0]
    /\ ScriptIdle
    /\ KwIdle
    /\ ClassIdle
    /\ HandoffIdle
    /\ MergeIdle
    /\ RawIdle
    /\ CleanIdle
    /\ StdIdle
    /\ EventIdle
    /\ FetchIdle
    /\ CompanyIdle
    /\ ProbeIdle
    /\ NearestIdle
    /\ AnalysisIdle

\* One pass of `for attempt in range(max_retries)`: sleep, call history, then
\* return or back off.
RetryIteration(c) ==
    /\ rpc[c] = "loop"
    /\ attempt[c] < max_retries
    /\ LET n == calls[c] + 1
           ok == HistoryReturns(n)
           what == AfterHistory(ok, attempt[c], max_retries)
           slept == Append(waits[c], PreDelay(c))
       IN /\ calls' = [calls EXCEPT ![c] = n]
          /\ failed' = [failed EXCEPT ![c] = IF ok THEN @ ELSE @ + 1]
          /\ waits' = [waits EXCEPT ![c] =
                         IF what = "backoff"
                         THEN Append(slept, Backoff(c, attempt[c]))
                         ELSE slept]
          /\ ret' = [ret EXCEPT ![c] =
                         IF what = "return_data" THEN "data"
                         ELSE IF what = "return_none" THEN "None"
                         ELSE IF what = "raise" THEN "raised"
                         ELSE @]
          /\ rpc' = [rpc EXCEPT ![c] = IF what = "backoff" THEN "loop" ELSE "done"]
          /\ attempt' = [attempt EXCEPT ![c] = IF what = "backoff" THEN @ + 1 ELSE @]
    /\ UNCHANGED <<max_retries, oracle>>
    /\ UNCHANGED <<scriptVars, kwVars, classVars, handoffVars, mergeVars, rawVars, cleanVars, stdVars, eventVars, fetchVars, companyVars, probeVars, nearestVars, analysisVars>>

\* The loop ran out: the `return None` after the for statement.
RetryExhausted(c) ==
    /\ rpc[c] = "loop"
    /\ attempt[c] >= max_retries
    /\ ret' = [ret EXCEPT ![c] = "None"]
    /\ rpc' = [rpc EXCEPT ![c] = "done"]
    /\ UNCHANGED <<max_retries, oracle, attempt, calls, waits, failed>>
    /\ UNCHANGED <<scriptVars, kwVars, classVars, handoffVars, mergeVars, rawVars, cleanVars, stdVars, eventVars, fetchVars, companyVars, probeVars, nearestVars, analysisVars>>

NextRetry ==
    \/ \E c \in Copies : RetryIteration(c)
    \/ \E c \in Copies : RetryExhausted(c)

SpecRetry == InitRetry /\ [][NextRetry]_vars

\* The calls of this run that history answers: the first max_retries of the oracle.
FirstOk == { n \in 1..max_retries : oracle[n] /\ \A m \in 1..(n - 1) : ~oracle[m] }

\* The backoff sleeps of a copy, in order.
Backoffs(c) == SelectSeq(waits[c], LAMBDA w : w.kind = "backoff")

\* The pre-attempt sleeps of a copy, in order.
PreDelays(c) == SelectSeq(waits[c], LAMBDA w : w.kind = "pre")

AllReturned == \A c \in Copies : rpc[c] = "done"

\* C1: get_stock_data_with_retry calls ticker_obj.history at most max_retries
\* times; it returns the result of the first call that does not raise and makes
\* no call after it; it returns None only after max_retries consecutive calls
\* have raised; the exception never leaves the function.
C1_RetryContract ==
    \A c \in Copies :
        /\ calls[c] <= max_retries
        /\ \A n \in FirstOk : calls[c] <= n
        /\ ret[c] # "raised"
        /\ ret[c] = "data" => calls[c] \in FirstOk
        /\ ret[c] = "None" =>
              /\ calls[c] = max_retries
              /\ failed[c] = max_retries
              /\ \A n \in 1..max_retries : ~oracle[n]
        /\ rpc[c] = "done" => ret[c] \in {"data", "None"}

\* A run that returned the data of its second call, after one failure.
C1_Witness ==
    \E c \in Copies : ret[c] = "data" /\ calls[c] = 2 /\ failed[c] = 1

\* C2: after the k-th failed attempt that is not the last, the function sleeps a
\* backoff whose non-random part is base * 2^(k-1) with 1 s <= base <= 2 s, then
\* sleeps the pre-attempt delay and tries again; after the final failed attempt
\* it returns None with no backoff.
C2_BackoffSchedule ==
    \A c \in Copies :
        /\ \E base \in 10..20 :
              \A k \in 1..Len(Backoffs(c)) : Backoffs(c)[k].fixed = base * Pow2(k - 1)
        /\ \A i \in 1..Len(waits[c]) :
              waits[c][i].kind = (IF i % 2 = 1 THEN "pre" ELSE "backoff")
        /\ rpc[c] = "loop" => Len(Backoffs(c)) = failed[c]
        /\ ret[c] = "data" => Len(Backoffs(c)) = failed[c]
        /\ (ret[c] = "None" /\ failed[c] > 0) =>
              /\ Len(Backoffs(c)) = failed[c] - 1
              /\ waits[c][Len(waits[c])].kind = "pre"

\* A run with the default max_retries = 3 in which all three calls raised: two
\* backoffs, the second twice the first, then None.
C2_Witness ==
    /\ max_retries = DefaultMaxRetries
    /\ \E c \in Copies :
          /\ ret[c] = "None"
          /\ failed[c] = 3
          /\ Len(Backoffs(c)) = 2
          /\ Backoffs(c)[2].fixed = 2 * Backoffs(c)[1].fixed

\* C3 as stated: on the same outcomes of history the three copies make the
\* same number of attempts, return the same value and sleep the same schedule.
C3_CopiesIdentical ==
    AllReturned =>
        \A a, b \in Copies :
            /\ calls[a] = calls[b]
            /\ ret[a] = ret[b]
            /\ waits[a] = waits[b]

\* C3 amended: the three copies make the same number of attempts, return the
\* same value and sleep the same pre-attempt delay (1 s plus up to 1 s); the
\* fetch_financial_metrics and DATACOLLECTION copies back off 2^attempt s plus
\* 0.1..0.5 s, the data_collection copy backs off twice that, 2 * 2^attempt s,
\* plus 0..2 s.
C3_CopiesAgreeUpToBackoff ==
    AllReturned =>
        /\ \A a, b \in Copies :
              /\ calls[a] = calls[b]
              /\ ret[a] = ret[b]
              /\ PreDelays(a) = PreDelays(b)
              /\ Len(Backoffs(a)) = Len(Backoffs(b))
        /\ waits["metrics"] = waits["legacy"]
        /\ \A k \in 1..Len(Backoffs("legacy")) :
              /\ Backoffs("legacy")[k] =
                    [kind |-> "backoff", fixed |-> 10 * Pow2(k - 1), lo |-> 1, hi |-> 5]
              /\ Backoffs("collection")[k] =
                    [kind |-> "backoff", fixed |-> 20 * Pow2(k - 1), lo |-> 0, hi |-> 20]

\* All three copies have returned after backing off at least once.
C3_Witness ==
    AllReturned /\ \A c \in Copies : Len(Backoffs(c)) >= 1

(***************************************************************************)
(* The per-row loops of fetch_financial_metrics.main and of the            *)
(* DATACOLLECTION fetch_stock_prices script                                *)
(***************************************************************************)

\* The most rows an input file holds.
MaxRows == 3

Scripts == {"metrics", "prices"}

\* The statuses a row ends its iteration with without an exception and without
\* data: the `continue` branches of the loop body.
SkipStatuses(s) ==
    IF s = "metrics"
    THEN {"Invalid ticker"}
    ELSE {"Invalid ticker", "No valid trading days found", "Could not get price data"}

\* df.to_csv of the whole in-memory table.
to_csv(status) == [written |-> TRUE, status |-> status]

InitScript ==
    /\ script \in Scripts
    /\ nrows \in 0..MaxRows
    /\ index = 1
    /\ dfStatus = [i \in 1..nrows |-> "None"]
    /\ csv = [written |-> FALSE, status |-> <<>>]
    /\ spc = "loop"
    /\ RetryIdle
    /\ KwIdle
    /\ ClassIdle
    /\ HandoffIdle
    /\ MergeIdle
    /\ RawIdle
    /\ CleanIdle
    /\ StdIdle
    /\ EventIdle
    /\ FetchIdle
    /\ CompanyIdle
    /\ ProbeIdle
    /\ NearestIdle
    /\ AnalysisIdle

\* The row is fetched: its values and 'Success' are stored and the table is
\* saved ("Save progress after each successful processing").
RowSucceeds ==
    /\ spc = "loop"
    /\ index <= nrows
    /\ dfStatus' = [dfStatus EXCEPT ![index] = "Success"]
    /\ csv' = to_csv(dfStatus')
    /\ index' = index + 1
    /\ UNCHANGED <<script, nrows, spc>>
    /\ UNCHANGED <<retryVars, kwVars, classVars, handoffVars, mergeVars, rawVars, cleanVars, stdVars, eventVars, fetchVars, companyVars, probeVars, nearestVars, analysisVars>>

\* The row has no ticker, no trading day or no price: its status is stored and
\* the loop continues.
RowSkipped ==
    /\ spc = "loop"
    /\ index <= nrows
    /\ \E st \in SkipStatuses(script) :
          dfStatus' = [dfStatus EXCEPT ![index] = st]
    /\ index' = index + 1
    /\ UNCHANGED <<script, nrows, csv, spc>>
    /\ UNCHANGED <<retryVars, kwVars, classVars, handoffVars, mergeVars, rawVars, cleanVars, stdVars, eventVars, fetchVars, companyVars, probeVars, nearestVars, analysisVars>>

\* The row's processing raises: the except clause stores 'Error: ...' and the
\* loop continues.
RowRaises ==
    /\ spc = "loop"
    /\ index <= nrows
    /\ dfStatus' = [dfStatus EXCEPT ![index] = "Error"]
    /\ index' = index + 1
    /\ UNCHANGED <<script, nrows, csv, spc>>
    /\ UNCHANGED <<retryVars, kwVars, classVars, handoffVars, mergeVars, rawVars, cleanVars, stdVars, eventVars, fetchVars, companyVars, probeVars, nearestVars, analysisVars>>

\* The loop is over: "Processing complete!", "Results have been saved ...",
\* "Check the 'Status' column for details on any failed tickers".
LoopFinished ==
    /\ spc = "loop"
    /\ index > nrows
    /\ spc' = "done"
    /\ UNCHANGED <<script, nrows, index, dfStatus, csv>>
    /\ UNCHANGED <<retryVars, kwVars, classVars, handoffVars, mergeVars, rawVars, cleanVars, stdVars, eventVars, fetchVars, companyVars, probeVars, nearestVars, analysisVars>>

NextScript ==
    \/ RowSucceeds
    \/ RowSkipped
    \/ RowRaises
    \/ LoopFinished

SpecScript == InitScript /\ [][NextScript]_vars

\* C4: when the script has finished its loop, the file it saved holds the
\* final status of every row, failed rows included.
C4_SavedFileHasEveryStatus ==
    spc = "done" =>
        \A i \in 1..nrows : csv.written /\ csv.status[i] = dfStatus[i]

(***************************************************************************)
(* Strings are sequences of one-character strings.  A table cell is a      *)
(* record [t, v]: t = "str" with the characters in v, t = "fin" with an    *)
(* integer in v, or "nan" (a missing value), "inf", "ninf" with v = 0.    *)
(***************************************************************************)

NaN == [t |-> "nan", v |-> 0]
Str(chars) == [t |-> "str", v |-> chars]
Fin(n) == [t |-> "fin", v |-> n]
PosInf == [t |-> "inf", v |-> 0]
NegInf == [t |-> "ninf", v |-> 0]

\* None, as row.get gives for a column the row does not have.
None == [t |-> "none", v |-> 0]

\* pd.isna
isna(x) == x.t \in {"nan", "none", "nat"}

\* str(x) of a cell holding a string or a missing value: str(nan) is 'nan'.
str(x) == IF isna(x) THEN <<"n", "a", "n">> ELSE x.v

UpperToLower ==
    ("A" :> "a") @@ ("B" :> "b") @@ ("C" :> "c") @@ ("D" :> "d") @@ ("E" :> "e") @@ ("F" :> "f") @@ ("G" :> "g") @@ ("H" :> "h") @@ ("I" :> "i") @@ ("J" :> "j") @@ ("K" :> "k") @@ ("L" :> "l") @@ ("M" :> "m") @@ ("N" :> "n") @@ ("O" :> "o") @@ ("P" :> "p") @@ ("Q" :> "q") @@ ("R" :> "r") @@ ("S" :> "s") @@ ("T" :> "t") @@ ("U" :> "u") @@ ("V" :> "v") @@ ("W" :> "w") @@ ("X" :> "x") @@ ("Y" :> "y") @@ ("Z" :> "z")

\* str.lower
lower(s) == [i \in 1..Len(s) |-> IF s[i] \in DOMAIN UpperToLower THEN UpperToLower[s[i]] ELSE s[i]]

\* s[i:].startswith(sub), i counted from 1
StartsAt(sub, s, i) ==
    /\ i + Len(sub) - 1 <= Len(s)
    /\ \A j \in 1..Len(sub) : s[i + j - 1] = sub[j]

\* Python's `sub in s`: a scan of s from the left.
RECURSIVE InFrom(_, _, _)
InFrom(sub, s, i) ==
    IF i + Len(sub) - 1 > Len(s) THEN FALSE
    ELSE IF StartsAt(sub, s, i) THEN TRUE
    ELSE InFrom(sub, s, i + 1)

In(sub, s) == InFrom(sub, s, 1)

\* any(keyword in s for keyword in keywords)
RECURSIVE AnyKeywordIn(_, _, _)
AnyKeywordIn(keywords, s, k) ==
    IF k > Len(keywords) THEN FALSE
    ELSE IF In(keywords[k], s) THEN TRUE
    ELSE AnyKeywordIn(keywords, s, k + 1)

(***************************************************************************)
(* classify_target_by_keywords                                             *)
(***************************************************************************)

\* The two versions of the classification script.
Versions == {"greenbrown", "GB"}

green_keywords(version) ==
    IF version = "greenbrown"
    THEN <<
      <<"s", "o", "l", "a", "r">>,
      <<"w", "i", "n", "d">>,
      <<"r", "e", "n", "e", "w", "a", "b", "l", "e">>,
      <<"s", "u", "s", "t", "a", "i", "n", "a", "b", "l", "e">>,
      <<"g", "e", "o", "t", "h", "e", "r", "m", "a", "l">>,
      <<"b", "i", "o", "m", "a", "s", "s">>,
      <<"h", "y", "d", "r", "o">>,
      <<"c", "l", "e", "a", "n">>,
      <<"e", "n", "e", "r", "g", "y", " ", "s", "t", "o", "r", "a", "g", "e">>,
      <<"b", "a", "t", "t", "e", "r", "y">>,
      <<"r", "e", "c", "y", "c", "l", "i", "n", "g">>,
      <<"w", "a", "t", "e", "r", " ", "t", "r", "e", "a", "t", "m", "e", "n", "t">>,
      <<"w", "a", "s", "t", "e", " ", "m", "a", "n", "a", "g", "e", "m", "e", "n", "t">>,
      <<"c", "a", "r", "b", "o", "n", " ", "c", "a", "p", "t", "u", "r", "e">>,
      <<"e", "l", "e", "c", "t", "r", "i", "c", " ", "v", "e", "h", "i", "c", "l", "e">>,
      <<"e", "v">>,
      <<"g", "r", "e", "e", "n">>,
      <<"c", "i", "r", "c", "u", "l", "a", "r", " ", "e", "c", "o", "n", "o", "m", "y">>
    >>
    ELSE <<
      <<"s", "o", "l", "a", "r">>,
      <<"w", "i", "n", "d">>,
      <<"r", "e", "n", "e", "w", "a", "b", "l", "e">>,
      <<"s", "u", "s", "t", "a", "i", "n", "a", "b", "l", "e">>,
      <<"g", "e", "o", "t", "h", "e", "r", "m", "a", "l">>,
      <<"b", "i", "o", "m", "a", "s", "s">>,
      <<"h", "y", "d", "r", "o">>,
      <<"c", "l", "e", "a", "n">>
    >>

brown_keywords(version) ==
    IF version = "greenbrown"
    THEN <<
      <<"c", "o", "a", "l">>,
      <<"o", "i", "l">>,
      <<"g", "a", "s">>,
      <<"f", "o", "s", "s", "i", "l">>,
      <<"p", "e", "t", "r", "o", "l", "e", "u", "m">>,
      <<"n", "u", "c", "l", "e", "a", "r">>,
      <<"t", "r", "a", "d", "i", "t", "i", "o", "n", "a", "l">>,
      <<"m", "i", "n", "i", "n", "g">>,
      <<"d", "r", "i", "l", "l", "i", "n", "g">>,
      <<"f", "r", "a", "c", "k", "i", "n", "g">>,
      <<"c", "o", "m", "b", "u", "s", "t", "i", "o", "n">>,
      <<"r", "e", "f", "i", "n", "e", "r", "y">>,
      <<"p", "i", "p", "e", "l", "i", "n", "e">>
    >>
    ELSE <<
      <<"c", "o", "a", "l">>,
      <<"o", "i", "l">>,
      <<"g", "a", "s">>,
      <<"f", "o", "s", "s", "i", "l">>,
      <<"p", "e", "t", "r", "o", "l", "e", "u", "m">>,
      <<"n", "u", "c", "l", "e", "a", "r">>,
      <<"t", "r", "a", "d", "i", "t", "i", "o", "n", "a", "l">>
    >>

\* The version that tests the brown keywords first.
classify_target_brown_first(version, name) ==
    IF version = "greenbrown" /\ isna(name) THEN "Unknown"
    ELSE LET target_name_lower == lower(str(name))
         IN IF AnyKeywordIn(brown_keywords(version), target_name_lower, 1) THEN "Brown"
            ELSE IF AnyKeywordIn(green_keywords(version), target_name_lower, 1) THEN "Green"
            ELSE "Neutral"

\* classify_target_by_keywords(target_name); only greenbrown_classification.py
\* tests pd.isna first.
classify_target_by_keywords(version, name) ==
    IF version = "greenbrown" /\ isna(name) THEN "Unknown"
    ELSE LET target_name_lower == lower(str(name))
         IN IF AnyKeywordIn(green_keywords(version), target_name_lower, 1) THEN "Green"
            ELSE IF AnyKeywordIn(brown_keywords(version), target_name_lower, 1) THEN "Brown"
            ELSE "Neutral"

\* The pieces target names are made of.
NameParts == {
    <<"S", "o", "l", "a", "r">>,
    <<"C", "O", "A", "L">>,
    <<"G", "a", "s">>,
    <<"C", "h", "e", "v", "r", "o", "n">>,
    <<" ">>,
    <<"x">>,
    <<"M", "i", "n", "i", "n", "g">>,
    <<"w", "i", "n", "d">>,
    <<"O", "i", "l">>
    }

\* The most pieces in a target name.
MaxParts == 2

RECURSIVE NamesOf(_)
NamesOf(n) ==
    IF n = 0 THEN {<<>>}
    ELSE NamesOf(n - 1) \cup { a \o b : a \in NamesOf(n - 1), b \in NameParts }

TargetNames == { Str(n) : n \in NamesOf(MaxParts) } \cup {NaN}

InitKeywords ==
    /\ kwVersion \in Versions
    /\ target_name \in TargetNames
    /\ target_class = "pending"
    /\ RetryIdle
    /\ ScriptIdle
    /\ ClassIdle
    /\ HandoffIdle
    /\ MergeIdle
    /\ RawIdle
    /\ CleanIdle
    /\ StdIdle
    /\ EventIdle
    /\ FetchIdle
    /\ CompanyIdle
    /\ ProbeIdle
    /\ NearestIdle
    /\ AnalysisIdle

\* df_all['Target Name'].apply(classify_target_by_keywords), one element.
ClassifyTarget ==
    /\ target_class = "pending"
    /\ target_class' = classify_target_by_keywords(kwVersion, target_name)
    /\ UNCHANGED <<kwVersion, target_name>>
    /\ UNCHANGED <<retryVars, scriptVars, classVars, handoffVars, mergeVars, rawVars, cleanVars, stdVars, eventVars, fetchVars, companyVars, probeVars, nearestVars, analysisVars>>

NextKeywords == ClassifyTarget

SpecKeywords == InitKeywords /\ [][NextKeywords]_vars

\* Some keyword of the list occurs in s at some position.
HasKeyword(keywords, s) ==
    \E k \in 1..Len(keywords) : \E i \in 1..Len(s) :
        /\ i + Len(keywords[k]) - 1 <= Len(s)
        /\ SubSeq(s, i, i + Len(keywords[k]) - 1) = keywords[k]

\* C6: classify_target_by_keywords returns 'Green' whenever the lower-cased
\* name contains a green keyword (even beside a brown one), 'Brown' when it
\* contains a brown keyword and no green one, 'Neutral' when it contains
\* neither; greenbrown_classification.py returns 'Unknown' for a missing name;
\* the result is always one of these labels.
C6_KeywordLabels ==
    target_class # "pending" =>
        LET missing == kwVersion = "greenbrown" /\ isna(target_name)
            name == lower(str(target_name))
            green == HasKeyword(green_keywords(kwVersion), name)
            brown == HasKeyword(brown_keywords(kwVersion), name)
        IN /\ target_class \in {"Green", "Brown", "Neutral", "Unknown"}
           /\ missing => target_class = "Unknown"
           /\ (~missing /\ green) => target_class = "Green"
           /\ (~missing /\ brown /\ ~green) => target_class = "Brown"
           /\ (~missing /\ ~brown /\ ~green) => target_class = "Neutral"

\* A name with a green and a brown keyword, 'Solar' and 'Gas', classified Green.
C6_Witness ==
    /\ target_class = "Green"
    /\ ~isna(target_name)
    /\ HasKeyword(<< <<"s", "o", "l", "a", "r">> >>, lower(str(target_name)))
    /\ HasKeyword(<< <<"g", "a", "s">> >>, lower(str(target_name)))

(***************************************************************************)
(* Numbers.  Emissions, sales and market capitalisation are integer cells  *)
(* or missing.  A carbon intensity, rounded to four decimals, is a cell    *)
(* counting ten-thousandths; a division by zero gives inf, -inf or nan as   *)
(* float division does.  The 25th percentile is kept in quarters of a       *)
(* ten-thousandth, so that its linear interpolation stays an integer.       *)
(***************************************************************************)

Abs(n) == IF n < 0 THEN -n ELSE n

\* num / den rounded to the nearest integer, halves to the even one
\* (Series.round).
RoundDiv(num, den) ==
    LET a == Abs(num)
        b == Abs(den)
        q == a \div b
        r == a % b
        m == IF 2 * r > b \/ (2 * r = b /\ q % 2 = 1) THEN q + 1 ELSE q
    IN IF (num < 0) # (den < 0) THEN -m ELSE m

\* df['Acquirer_GHG_Emissions'] / df[denominator], then .round(4).
Intensity(e, d) ==
    IF isna(e) \/ isna(d) THEN NaN
    ELSE IF d.v = 0
         THEN (IF e.v > 0 THEN PosInf ELSE IF e.v < 0 THEN NegInf ELSE NaN)
         ELSE Fin(RoundDiv(e.v * 10000, d.v))

\* The order of floats that are not nan.
Rank(x) == IF x.t = "ninf" THEN 0 ELSE IF x.t = "fin" THEN 1 ELSE 2

Leq(x, y) ==
    /\ ~isna(x)
    /\ ~isna(y)
    /\ \/ Rank(x) < Rank(y)
       \/ Rank(x) = Rank(y) /\ (x.t # "fin" \/ x.v <= y.v)

\* Float subtraction, addition and scaling by t = g/4 where a non-finite value
\* is involved: only the kind of the result matters.
KindSub(x, y) ==
    IF x.t = "nan" \/ y.t = "nan" THEN "nan"
    ELSE IF x.t = "fin" /\ y.t = "fin" THEN "fin"
    ELSE IF x.t = y.t THEN "nan"
    ELSE IF x.t = "inf" \/ y.t = "ninf" THEN "inf"
    ELSE "ninf"

KindNeg(k) == IF k = "inf" THEN "ninf" ELSE IF k = "ninf" THEN "inf" ELSE k

KindAdd(k1, k2) ==
    IF k1 = "nan" \/ k2 = "nan" THEN "nan"
    ELSE IF k1 = "fin" THEN k2
    ELSE IF k2 = "fin" THEN k1
    ELSE IF k1 = k2 THEN k1
    ELSE "nan"

KindScale(k, g) == IF k \in {"inf", "ninf"} /\ g = 0 THEN "nan" ELSE k

OfKind(k) == IF k = "inf" THEN PosInf ELSE IF k = "ninf" THEN NegInf ELSE NaN

\* numpy's _lerp(a, b, t) for t = g/4, four times the value where it is finite:
\* a + (b - a) * t, and b - (b - a) * (1 - t) where t >= 0.5.
Lerp4(a, b, g) ==
    IF a.t = "fin" /\ b.t = "fin" THEN Fin(4 * a.v + g * (b.v - a.v))
    ELSE LET d == KindSub(b, a)
         IN IF g < 2
            THEN OfKind(KindAdd(a.t, KindScale(d, g)))
            ELSE OfKind(KindAdd(b.t, KindNeg(KindScale(d, 4 - g))))

RECURSIVE Insert(_, _)
Insert(x, sorted) ==
    IF sorted = <<>> THEN <<x>>
    ELSE IF Leq(x, Head(sorted)) THEN <<x>> \o sorted
    ELSE <<Head(sorted)>> \o Insert(x, Tail(sorted))

RECURSIVE Sort(_)
Sort(xs) == IF xs = <<>> THEN <<>> ELSE Insert(Head(xs), Sort(Tail(xs)))

\* The value at position (n - 1) * num / 4 of the sorted values that are not
\* nan, linearly interpolated; nan when there is none.
QuantileQuarters(values, num) ==
    LET xs == Sort(SelectSeq(values, LAMBDA x : ~isna(x)))
        n == Len(xs)
        lo == ((n - 1) * num) \div 4
        g == ((n - 1) * num) % 4
    IN IF n = 0 THEN NaN
       ELSE Lerp4(xs[lo + 1], xs[IF lo + 2 <= n THEN lo + 2 ELSE n], g)

\* The upper quartile instead of the lower one.
quantile75(values) == QuantileQuarters(values, 3)

\* Series.quantile(0.25), in quarters.
quantile25(values) == QuantileQuarters(values, 1)

\* x <= percentile for a value x and a percentile in quarters; False when
\* either is nan.
LeqPercentile(x, q) ==
    IF x.t = "fin" /\ q.t = "fin" THEN 4 * x.v <= q.v ELSE Leq(x, q)

(***************************************************************************)
(* classify_by_carbon_intensity                                            *)
(***************************************************************************)

\* classify_by_carbon_intensity(df) for a df whose rows are [row, emis, denom]:
\* the intensity and label of every row, and percentile_25th.
classify_by_carbon_intensity(df) ==
    LET ci == [k \in 1..Len(df) |-> Intensity(df[k].emis, df[k].denom)]
        percentile_25th == quantile25(ci)
    IN [called |-> TRUE,
        labels |-> [k \in 1..Len(df) |->
                      [row |-> df[k].row,
                       ci |-> ci[k],
                       label |-> IF LeqPercentile(ci[k], percentile_25th)
                                 THEN "Green" ELSE "Brown"]],
        p25 |-> percentile_25th]

(***************************************************************************)
(* greenbrown_classification.main and GB_classification.main               *)
(***************************************************************************)

\* A label in a table cell.
Lab(label) == [t |-> "lab", v |-> label]

\* row.get(col): None for a column the row does not have.
get(row, col) == IF col \in DOMAIN row THEN row[col] ELSE None

\* The column the emissions are divided by: annual sales in
\* greenbrown_classification.py, market capitalisation in GB_classification.py.
DenominatorColumn(version) ==
    IF version = "greenbrown" THEN "Annual_Sales" ELSE "Market_Cap_AD_mil"

\* The columns main reads: required_columns in greenbrown_classification.py,
\* the columns GB_classification.py indexes.
required_columns(version) ==
    IF version = "greenbrown"
    THEN {"Target Name", "Ticker", "Acquirer Name", "Acquirer_GHG_Emissions", "Annual_Sales"}
    ELSE {"Target Name", "Acquirer_GHG_Emissions", "Market_Cap_AD_mil"}

\* column_order of greenbrown_classification.main.
column_order ==
    {"Announce Date", "Reference_Year", "Ticker", "Acquirer Name", "Annual_Sales",
     "Acquirer_GHG_Emissions", "Carbon_Intensity", "Acquirer_Classification",
     "Target Name", "Target_Classification", "Seller Name",
     "Announced Total Value (mil.)", "TV/EBITDA", "Deal Status"}

RECURSIVE Ascending(_)
Ascending(S) ==
    IF S = {} THEN <<>>
    ELSE LET m == CHOOSE x \in S : \A y \in S : x <= y
         IN <<m>> \o Ascending(S \ {m})

\* x > 0 for a float that is not nan.
Positive(x) == (x.t = "fin" /\ x.v > 0) \/ x.t = "inf"

\* df_all.dropna(subset=['Acquirer_GHG_Emissions', denominator]) and, in
\* greenbrown_classification.py only, df_carbon[df_carbon['Annual_Sales'] > 0].
df_carbon(version, rows) ==
    LET den == DenominatorColumn(version)
        keep == { i \in 1..Len(rows) :
                    /\ ~isna(rows[i]["Acquirer_GHG_Emissions"])
                    /\ ~isna(rows[i][den])
                    /\ (version = "greenbrown" => Positive(rows[i][den])) }
        idx == Ascending(keep)
    IN [k \in 1..Len(idx) |->
          [row |-> idx[k],
           emis |-> rows[idx[k]]["Acquirer_GHG_Emissions"],
           denom |-> rows[idx[k]][den]]]

\* format_carbon_intensity, one cell: infinities become missing.
format_carbon_intensity(x) == IF x.t \in {"inf", "ninf"} THEN NaN ELSE x

NotWritten == [written |-> FALSE, cols |-> {}, rows |-> <<>>]

NotCalled == [called |-> FALSE, labels |-> <<>>, p25 |-> 0]

\* greenbrown_classification.main on the table read from the input file: the
\* file written, the rows divided and the call of classify_by_carbon_intensity.
greenbrown_main(f) ==
    IF ~(required_columns("greenbrown") \subseteq f.cols)
    THEN [file |-> NotWritten, divided |-> <<>>, carbon |-> NotCalled]
    ELSE
    LET dfc == df_carbon("greenbrown", f.rows)
        res == IF Len(dfc) > 0 THEN classify_by_carbon_intensity(dfc) ELSE NotCalled
        \* df_carbon.set_index('Ticker')[...].to_dict(): the last row of a ticker wins
        last(i) == { k \in 1..Len(dfc) :
                       /\ f.rows[dfc[k].row]["Ticker"] = f.rows[i]["Ticker"]
                       /\ \A m \in (k + 1)..Len(dfc) :
                            f.rows[dfc[m].row]["Ticker"] # f.rows[i]["Ticker"] }
        cols1 == f.cols \cup {"Target_Classification"} \cup
                 (IF Len(dfc) > 0 THEN {"Acquirer_Classification", "Carbon_Intensity"} ELSE {})
        cell(i, c) ==
            IF c = "Target_Classification"
            THEN Lab(classify_target_by_keywords("greenbrown", f.rows[i]["Target Name"]))
            ELSE IF c = "Acquirer_Classification" /\ Len(dfc) > 0
            THEN (IF last(i) = {} THEN NaN
                  ELSE Lab(res.labels[CHOOSE k \in last(i) : TRUE].label))
            ELSE IF c = "Carbon_Intensity" /\ Len(dfc) > 0
            THEN (IF last(i) = {} THEN NaN
                  ELSE format_carbon_intensity(res.labels[CHOOSE k \in last(i) : TRUE].ci))
            ELSE f.rows[i][c]
        outcols == column_order \cap cols1
    IN [file |-> [written |-> TRUE,
                  cols |-> outcols,
                  rows |-> [i \in 1..Len(f.rows) |-> [c \in outcols |-> cell(i, c)]]],
        divided |-> dfc,
        carbon |-> res]

\* GB_classification.main: every row with both values present is classified,
\* and the labels are merged back on the row index.
GB_main(f) ==
    IF ~(required_columns("GB") \subseteq f.cols)
    THEN [file |-> NotWritten, divided |-> <<>>, carbon |-> NotCalled]
    ELSE
    LET dfc == df_carbon("GB", f.rows)
        res == classify_by_carbon_intensity(dfc)
        at(i) == { k \in 1..Len(dfc) : dfc[k].row = i }
        outcols == f.cols \cup
                   {"Target_Classification", "Acquirer_Classification", "Carbon_Intensity"}
        cell(i, c) ==
            IF c = "Target_Classification"
            THEN Lab(classify_target_by_keywords("GB", f.rows[i]["Target Name"]))
            ELSE IF c = "Acquirer_Classification"
            THEN (IF at(i) = {} THEN NaN
                  ELSE Lab(res.labels[CHOOSE k \in at(i) : TRUE].label))
            ELSE IF c = "Carbon_Intensity"
            THEN (IF at(i) = {} THEN NaN
                  ELSE format_carbon_intensity(res.labels[CHOOSE k \in at(i) : TRUE].ci))
            ELSE f.rows[i][c]
    IN [file |-> [written |-> TRUE,
                  cols |-> outcols,
                  rows |-> [i \in 1..Len(f.rows) |-> [c \in outcols |-> cell(i, c)]]],
        divided |-> dfc,
        carbon |-> res]

\* The most rows of a classification input.
MaxDeals == 3

\* The emissions and the denominators (sales, market capitalisation) tried.
EmissionValues == {NaN, Fin(0), Fin(2)}

DenominatorValues == {NaN, Fin(-1), Fin(0), Fin(1), Fin(2)}

\* The columns of the input files modelled.
InputColumns(version) ==
    IF version = "greenbrown"
    THEN {"Announce Date", "Ticker", "Acquirer Name", "Target Name",
          "Acquirer_GHG_Emissions", "Annual_Sales"}
    ELSE {"Deal Announce Date", "Acquirer Ticker", "Acquirer Name", "Target Name",
          "Acquirer_GHG_Emissions", "Market_Cap_AD_mil"}

\* The i-th deal of an input file: two acquirers take turns, every other
\* target has a green name.
DealRow(cols, i, ticker, date, e, d) ==
    [c \in cols |->
        IF c \in {"Ticker", "Acquirer Ticker"} THEN ticker
        ELSE IF c \in {"Announce Date", "Deal Announce Date"} THEN date
        ELSE IF c = "Acquirer Name" THEN Str(<<"C", "o">>)
        ELSE IF c = "Target Name"
             THEN (IF i % 2 = 1 THEN Str(<<"S", "o", "l", "a", "r", " ", "O", "n", "e">>) ELSE Str(<<"M", "i", "n", "i", "n", "g", " ", "C", "o">>))
        ELSE IF c = "Acquirer_GHG_Emissions" THEN e
        ELSE d]

TickerA == Str(<<"A", "A">>)

TickerB == Str(<<"B", "B">>)

ADate == Str(<<"1", "5", "-", "0", "3", "-", "2", "0", "2", "0">>)

InitClassify ==
    /\ cscript \in Versions
    /\ \E n \in 0..MaxDeals :
       \E ed \in [1..n -> EmissionValues \X DenominatorValues] :
       \E cols \in {InputColumns(cscript),
                    InputColumns(cscript) \ {DenominatorColumn(cscript)}} :
          infile = [cols |-> cols,
                    rows |-> [i \in 1..n |->
                                DealRow(cols, i, IF i % 2 = 1 THEN TickerA ELSE TickerB,
                                        ADate, ed[i][1], ed[i][2])]]
    /\ outfile = NotWritten
    /\ divided = <<>>
    /\ carbon = NotCalled
    /\ cpc = "start"
    /\ RetryIdle
    /\ ScriptIdle
    /\ KwIdle
    /\ HandoffIdle
    /\ MergeIdle
    /\ RawIdle
    /\ CleanIdle
    /\ StdIdle
    /\ EventIdle
    /\ FetchIdle
    /\ CompanyIdle
    /\ ProbeIdle
    /\ NearestIdle
    /\ AnalysisIdle

GreenbrownMain ==
    /\ cpc = "start"
    /\ cscript = "greenbrown"
    /\ LET r == greenbrown_main(infile)
       IN /\ outfile' = r.file
          /\ divided' = r.divided
          /\ carbon' = r.carbon
    /\ cpc' = "done"
    /\ UNCHANGED <<cscript, infile>>
    /\ UNCHANGED <<retryVars, scriptVars, kwVars, mergeVars, rawVars, cleanVars, stdVars, eventVars, fetchVars, companyVars, probeVars, nearestVars, analysisVars>>
    /\ UNCHANGED handoffVars

GBMain ==
    /\ cpc = "start"
    /\ cscript = "GB"
    /\ LET r == GB_main(infile)
       IN /\ outfile' = r.file
          /\ divided' = r.divided
          /\ carbon' = r.carbon
    /\ cpc' = "done"
    /\ UNCHANGED <<cscript, infile>>
    /\ UNCHANGED <<retryVars, scriptVars, kwVars, mergeVars, rawVars, cleanVars, stdVars, eventVars, fetchVars, companyVars, probeVars, nearestVars, analysisVars>>
    /\ UNCHANGED handoffVars

NextClassify ==
    \/ GreenbrownMain
    \/ GBMain

SpecClassify == InitClassify /\ [][NextClassify]_vars

\* The rows classify_by_carbon_intensity labelled Green.
GreenRows == { k \in 1..Len(carbon.labels) : carbon.labels[k].label = "Green" }

\* ceil(n / 4)
CeilQuarter(n) == (n + 3) \div 4

AllFinite == \A k \in 1..Len(carbon.labels) : carbon.labels[k].ci.t = "fin"

\* The k-th smallest of the finite intensities, by counting.
KthSmallest(k) ==
    LET L == carbon.labels
    IN CHOOSE x \in { L[i].ci.v : i \in 1..Len(L) } :
          /\ Cardinality({ i \in 1..Len(L) : L[i].ci.v < x }) < k
          /\ k <= Cardinality({ i \in 1..Len(L) : L[i].ci.v <= x })

\* Four times the 25th percentile of the finite intensities: the value at
\* position (n - 1) / 4 of their order, interpolated between its neighbours.
FinitePercentile25 ==
    LET n == Len(carbon.labels)
        lo == (n - 1) \div 4
        g == (n - 1) % 4
        a == KthSmallest(lo + 1)
        b == KthSmallest(IF lo + 2 <= n THEN lo + 2 ELSE n)
    IN 4 * a + g * (b - a)

\* C7: classify_by_carbon_intensity labels every row 'Green' or 'Brown',
\* 'Green' exactly when its intensity is at most the 25th percentile of the
\* intensities of the rows classified; so a non-empty input has a Green row,
\* and every row with an intensity at most that of a Green row is Green.
C7_PercentileLabels ==
    carbon.called =>
        LET L == carbon.labels
        IN /\ \A k \in 1..Len(L) :
                /\ L[k].label \in {"Green", "Brown"}
                /\ L[k].label = "Green" <=> LeqPercentile(L[k].ci, carbon.p25)
           /\ (AllFinite /\ Len(L) > 0) => carbon.p25 = Fin(FinitePercentile25)
           /\ Len(L) > 0 => GreenRows # {}
           /\ \A k \in GreenRows : \A m \in 1..Len(L) :
                (L[m].ci.t = "fin" /\ L[k].ci.t = "fin" /\ L[m].ci.v <= L[k].ci.v)
                    => m \in GreenRows

GreenBelowThreshold ==
    { k \in GreenRows :
        ~(carbon.labels[k].ci.t = "fin" /\ carbon.p25.t = "fin"
            /\ 4 * carbon.labels[k].ci.v = carbon.p25.v)
        /\ ~(carbon.labels[k].ci.t # "fin" /\ carbon.labels[k].ci.t = carbon.p25.t) }

PairwiseDistinct ==
    \A k, m \in 1..Len(carbon.labels) :
        k # m => carbon.labels[k].ci # carbon.labels[m].ci

C9_NoBadDenominator ==
    cpc = "done" =>
        /\ \A k \in 1..Len(divided) :
              divided[k].denom.t = "fin" /\ divided[k].denom.v > 0
        /\ \A k \in 1..Len(carbon.labels) :
              LET d == infile.rows[carbon.labels[k].row][DenominatorColumn(cscript)]
              IN d.t = "fin" /\ d.v > 0

(***************************************************************************)
(* The classified file handed to fetch_stock_prices.py (data_collection):  *)
(* greenbrown_classification.main writes master_data_classified.csv, and   *)
(* fetch_stock_prices.main reads it and runs process_company on every row. *)
(***************************************************************************)

\* str.strip(): the blanks at both ends removed.
RECURSIVE lstrip(_)
lstrip(s) == IF s # <<>> /\ Head(s) = " " THEN lstrip(Tail(s)) ELSE s

RECURSIVE rstrip(_)
rstrip(s) ==
    IF s # <<>> /\ s[Len(s)] = " " THEN rstrip(SubSeq(s, 1, Len(s) - 1)) ELSE s

strip(s) == rstrip(lstrip(s))

\* s.endswith(suffix)
endswith(s, suffix) ==
    Len(suffix) <= Len(s) /\ StartsAt(suffix, s, Len(s) - Len(suffix) + 1)

\* s.split(sep) from position i on, cur being the part collected so far.
RECURSIVE SplitFrom(_, _, _, _)
SplitFrom(s, sep, i, cur) ==
    IF i > Len(s) THEN <<cur>>
    ELSE IF StartsAt(sep, s, i) THEN <<cur>> \o SplitFrom(s, sep, i + Len(sep), <<>>)
    ELSE SplitFrom(s, sep, i + 1, Append(cur, s[i]))

split(s, sep) == SplitFrom(s, sep, 1, <<>>)

\* s.replace(old, new) from position i on: every occurrence, left to right.
RECURSIVE ReplaceFrom(_, _, _, _)
ReplaceFrom(s, old, new, i) ==
    IF i > Len(s) THEN <<>>
    ELSE IF StartsAt(old, s, i) THEN new \o ReplaceFrom(s, old, new, i + Len(old))
    ELSE <<s[i]>> \o ReplaceFrom(s, old, new, i + 1)

replace(s, old, new) == ReplaceFrom(s, old, new, 1)

Returned(x) == [raised |-> FALSE, value |-> x]

Raised == [raised |-> TRUE, value |-> None]

\* clean_ticker(ticker): the cleaned symbol, or the ValueError of unpacking a
\* split that has not exactly two parts.
clean_ticker(ticker) ==
    IF isna(ticker) THEN Returned(ticker)
    ELSE
    LET t1 == strip(str(ticker))
        t2 == IF StartsAt(<<"$">>, t1, 1) THEN Tail(t1) ELSE t1
        parts == split(t2, <<".">>)
        isin == Len(t2) > 12 /\ In(<<".">>, t2)
    IN IF isin /\ Len(parts) # 2 THEN Raised
       ELSE IF isin /\ (endswith(parts[2], <<"S", "G">>) \/ endswith(parts[2], <<"H", "A">>))
       THEN Returned(Str(parts[1] \o <<".", "D", "E">>))
       ELSE IF In(<<".", "S", "W">>, t2) THEN Returned(Str(t2))
       ELSE IF In(<<".", "S", "G">>, t2)
       THEN Returned(Str(replace(t2, <<".", "S", "G">>, <<".", "D", "E">>)))
       ELSE IF In(<<".", "H", "A">>, t2)
       THEN Returned(Str(replace(t2, <<".", "H", "A">>, <<".", "D", "E">>)))
       ELSE Returned(Str(t2))

Digits == {"0", "1", "2", "3", "4", "5", "6", "7", "8", "9"}

\* Whether pd.to_datetime reads the string as a date: of the formats it
\* accepts, the numeric day-month-year and year-month-day ones are modelled.
IsDateString(s) ==
    LET parts == split(s, <<"-">>)
        lens == [k \in 1..Len(parts) |-> Len(parts[k])]
    IN /\ Len(parts) = 3
       /\ \A k \in 1..3 : \A j \in 1..Len(parts[k]) : parts[k][j] \in Digits
       /\ lens \in {<<2, 2, 4>>, <<4, 2, 2>>}

TickerNotFound ==
    Str(<<"T", "i", "c", "k", "e", "r", " ", "n", "o", "t", " ", "f", "o", "u", "n", "d">>)

\* What the price lookups of one company come to: the status process_company
\* returns once it is past the date check.
PriceOutcomes ==
    {"No valid trading days found", "Could not get price data", "Success", "Error"}

\* process_company((index, row), days_before, days_after): the result, of
\* which the index, the status and the ticker are kept.  outcome is what the
\* lookups at Yahoo Finance come to.
process_company(idx, row, outcome) ==
    LET cleaned == clean_ticker(row["Ticker"])
        ticker_symbol == cleaned.value
        announce_date_dt == get(row, "Announce_Date")
        result(status, ticker) == [index |-> idx, status |-> status, ticker |-> ticker]
    IN IF cleaned.raised THEN result("Error", get(row, "Ticker"))
       ELSE IF isna(ticker_symbol) \/ ticker_symbol = TickerNotFound
       THEN result("Invalid ticker", ticker_symbol)
       ELSE IF isna(announce_date_dt)
       THEN result("Missing announcement date", ticker_symbol)
       ELSE IF announce_date_dt.t = "str" /\ ~IsDateString(announce_date_dt.v)
       THEN result("Invalid date format", ticker_symbol)
       ELSE IF outcome = "Error" THEN result("Error", get(row, "Ticker"))
       ELSE result(outcome, ticker_symbol)

\* The most rows of the file handed over.
MaxHandoffRows == 2

\* The tickers and announcement dates of the deals handed over.
HandoffTickers ==
    {NaN, TickerNotFound, TickerA, Str(<<"$", "B", "B">>), Str(<<" ", "C", "C", ".", "S", "G">>),
     Str(<<"D", "E", "0", "0", "0", "A", "1", "E", "W", "W", "W", "0", ".", "S", "G">>),
     Str(<<"D", "E", "0", "0", "0", "A", "1", "E", "W", "W", "W", "0", ".", "X", ".", "S", "G">>)}

HandoffDates == {NaN, ADate}

\* master_data_merged.csv as merge_all_data writes it, the same without the
\* sales column, and the same with a further column named Announce_Date.
HandoffColumns ==
    {InputColumns("greenbrown"),
     InputColumns("greenbrown") \ {"Annual_Sales"},
     InputColumns("greenbrown") \cup {"Announce_Date"}}

InitHandoff ==
    /\ cscript = "greenbrown"
    /\ \E n \in 1..MaxHandoffRows :
       \E td \in [1..n -> HandoffTickers \X HandoffDates] :
       \E cols \in HandoffColumns :
          infile = [cols |-> cols,
                    rows |-> [i \in 1..n |->
                                [c \in cols |->
                                   IF c = "Announce_Date" THEN td[i][2]
                                   ELSE DealRow(cols, i, td[i][1], td[i][2], Fin(2), Fin(i))[c]]]]
    /\ outfile = NotWritten
    /\ divided = <<>>
    /\ carbon = NotCalled
    /\ cpc = "start"
    /\ futures = {}
    /\ results = <<>>
    /\ base_df = [written |-> FALSE, status |-> <<>>]
    /\ hpc = "wait"
    /\ RetryIdle
    /\ ScriptIdle
    /\ KwIdle
    /\ MergeIdle
    /\ RawIdle
    /\ CleanIdle
    /\ StdIdle
    /\ EventIdle
    /\ FetchIdle
    /\ CompanyIdle
    /\ ProbeIdle
    /\ NearestIdle
    /\ AnalysisIdle

\* main up to the submission of the rows: pd.read_csv(input_file) raises when
\* the classified file was not written, and main prints the error and ends.
SubmitCompanies ==
    /\ hpc = "wait"
    /\ cpc = "done"
    /\ IF outfile.written
       THEN /\ futures' = 1..Len(outfile.rows)
            /\ hpc' = "fetch"
       ELSE /\ futures' = {}
            /\ hpc' = "failed"
    /\ UNCHANGED <<results, base_df>>
    /\ UNCHANGED <<retryVars, scriptVars, kwVars, classVars, mergeVars, rawVars, cleanVars, stdVars, eventVars, fetchVars, companyVars, probeVars, nearestVars, analysisVars>>

\* A worker completes process_company for one of the rows submitted, and main
\* appends the result.
ProcessCompany ==
    /\ hpc = "fetch"
    /\ \E i \in futures : \E outcome \in PriceOutcomes :
          /\ results' = Append(results, process_company(i, outfile.rows[i], outcome))
          /\ futures' = futures \ {i}
    /\ UNCHANGED <<base_df, hpc>>
    /\ UNCHANGED <<retryVars, scriptVars, kwVars, classVars, mergeVars, rawVars, cleanVars, stdVars, eventVars, fetchVars, companyVars, probeVars, nearestVars, analysisVars>>

\* All futures are done: the results are written into base_df, which is saved.
SaveResults ==
    /\ hpc = "fetch"
    /\ futures = {}
    /\ base_df' = [written |-> TRUE,
                   status |-> [i \in 1..Len(outfile.rows) |->
                                 LET k == CHOOSE k \in 1..Len(results) : results[k].index = i
                                 IN results[k].status]]
    /\ hpc' = "saved"
    /\ UNCHANGED <<futures, results>>
    /\ UNCHANGED <<retryVars, scriptVars, kwVars, classVars, mergeVars, rawVars, cleanVars, stdVars, eventVars, fetchVars, companyVars, probeVars, nearestVars, analysisVars>>

NextHandoff ==
    \/ GreenbrownMain
    \/ SubmitCompanies
    \/ ProcessCompany
    \/ SaveResults

SpecHandoff == InitHandoff /\ [][NextHandoff]_vars

\* A ticker process_company accepts: present and not the "Ticker not found"
\* that fetch_tickers.py leaves for a company it could not resolve.
ValidTicker(row) ==
    ~isna(row["Ticker"]) /\ strip(str(row["Ticker"])) # TickerNotFound.v

\* C5: a row of master_data_classified.csv with a valid ticker and an
\* announcement date that is not missing does not get the status
\* 'Missing announcement date' from process_company: it is taken past the
\* date check to the price lookups.
C5_DatedRowsPassTheDateCheck ==
    \A k \in 1..Len(results) :
        LET row == outfile.rows[results[k].index]
        IN (/\ ValidTicker(row)
            /\ "Announce Date" \in DOMAIN row
            /\ ~isna(row["Announce Date"]))
           => results[k].status # "Missing announcement date"

(***************************************************************************)
(* process_ghg_data (merge_master_data.py; merge_data.py has the same      *)
(* function, line for line).  Emissions are in sixtieths of a unit, which  *)
(* keeps the mean of up to six records exact.                              *)
(***************************************************************************)

\* A datetime64 cell and the missing one, NaT.
Date(y, m, d) == [t |-> "date", v |-> <<y, m, d>>]

NaT == [t |-> "nat", v |-> 0]

\* Series.dt.year: nan for NaT.
dt_year(x) == IF x.t = "date" THEN Fin(x.v[1]) ELSE NaN

\* The order of characters, as far as tickers need it.
Alphabet == <<" ", "$", "-", ".", "/", "0", "1", "2", "3", "4", "5", "6", "7", "8", "9",
              "A", "B", "C", "D", "E", "F", "G", "H", "I", "J", "K", "L", "M",
              "N", "O", "P", "Q", "R", "S", "T", "U", "V", "W", "X", "Y", "Z">>

ord(c) == CHOOSE i \in 1..Len(Alphabet) : Alphabet[i] = c

\* a < b for strings
RECURSIVE StrLess(_, _)
StrLess(a, b) ==
    IF b = <<>> THEN FALSE
    ELSE IF a = <<>> THEN TRUE
    ELSE IF Head(a) # Head(b) THEN ord(Head(a)) < ord(Head(b))
    ELSE StrLess(Tail(a), Tail(b))

\* The order groupby sorts its keys in: by ticker, then by year.
KeyLess(k1, k2) ==
    \/ StrLess(k1[1].v, k2[1].v)
    \/ k1[1] = k2[1] /\ k1[2].v < k2[2].v

RECURSIVE SortedKeys(_)
SortedKeys(S) ==
    IF S = {} THEN <<>>
    ELSE LET m == CHOOSE k \in S : \A o \in S \ {k} : KeyLess(k, o)
         IN <<m>> \o SortedKeys(S \ {m})

RECURSIVE SumOf(_)
SumOf(xs) == IF xs = <<>> THEN 0 ELSE Head(xs).v + SumOf(Tail(xs))

\* Series.mean(): over the values that are not missing, nan when there is none.
mean(xs) ==
    LET present == SelectSeq(xs, LAMBDA x : ~isna(x))
    IN IF present = <<>> THEN NaN ELSE Fin(SumOf(present) \div Len(present))

\* The GHG table as it goes into the merge, without the grouping: the key
\* columns and the emissions of every record.
ungrouped(rows) ==
    [k \in 1..Len(rows) |->
        [c \in {"Acquirer Ticker", "Reporting Year", "GHG_Emissions"} |-> rows[k][c]]]

\* ghg_data.groupby(['Acquirer Ticker', 'Reporting Year'], as_index=False)
\*     .agg({'GHG_Emissions': 'mean'}):
\* one row per key in the order of the keys; a record with a missing key
\* belongs to no group.
groupby_mean(rows) ==
    LET key(r) == <<r["Acquirer Ticker"], r["Reporting Year"]>>
        keys == SortedKeys({ key(rows[k]) : k \in { j \in 1..Len(rows) :
                                ~isna(rows[j]["Acquirer Ticker"])
                                /\ ~isna(rows[j]["Reporting Year"]) } })
    IN [g \in 1..Len(keys) |->
          LET members == SelectSeq(rows, LAMBDA r : key(r) = keys[g])
          IN ("Acquirer Ticker" :> keys[g][1]) @@ ("Reporting Year" :> keys[g][2]) @@
             ("GHG_Emissions" :>
                 mean([k \in 1..Len(members) |-> members[k]["GHG_Emissions"]]))]

\* pd.merge(left, right, left_on, right_on, how='left') on two key columns, the
\* first of the same name on both sides: every left row in order, once per
\* right row of the same key (missing keys match each other), or once with
\* the right columns missing.
RECURSIVE left_merge(_, _, _, _)
left_merge(left, right, left_on, right_on) ==
    IF left = <<>> THEN <<>>
    ELSE
    LET l == Head(left)
        matches == SelectSeq(right, LAMBDA r :
                      \A k \in 1..Len(left_on) : l[left_on[k]] = r[right_on[k]])
        rcols == IF right = <<>> THEN {"Reporting Year", "GHG_Emissions"}
                 ELSE DOMAIN right[1] \ DOMAIN l
        joined == IF matches = <<>>
                  THEN << l @@ [c \in rcols |-> NaN] >>
                  ELSE [k \in 1..Len(matches) |->
                          l @@ [c \in rcols |-> matches[k][c]]]
    IN joined \o left_merge(Tail(left), right, left_on, right_on)

process_ghg_data(ghg, deals) ==
    LET ghg1 == SelectSeq(ghg, LAMBDA r : ~isna(r["Acquirer Ticker"]))
        ghg2 == [k \in 1..Len(ghg1) |->
                   ghg1[k] @@ ("Reporting Year" :> dt_year(ghg1[k]["periodenddate"]))]
        deals1 == [k \in 1..Len(deals) |->
                     LET y == dt_year(deals[k]["Deal Announce Date"])
                     IN deals[k] @@
                        ("Previous Year" :> IF isna(y) THEN NaN ELSE Fin(y.v - 1))]
        ghg3 == groupby_mean(ghg2)
        merged == left_merge(deals1, ghg3,
                             <<"Acquirer Ticker", "Previous Year">>,
                             <<"Acquirer Ticker", "Reporting Year">>)
    IN [k \in 1..Len(merged) |->
          [c \in (DOMAIN merged[k] \ {"Reporting Year", "GHG_Emissions"})
                    \cup {"Acquirer_GHG_Emissions"} |->
              IF c = "Acquirer_GHG_Emissions" THEN merged[k]["GHG_Emissions"]
              ELSE merged[k][c]]]

\* The most GHG records and the most deals of a call.
MaxGhgRecords == 2

MaxMergeDeals == 2

GhgRecord(ticker, date, emissions) ==
    ("Acquirer Ticker" :> ticker) @@ ("periodenddate" :> date) @@
    ("GHG_Emissions" :> emissions)

\* The GHG records tried: two values and a missing one for the same company
\* and year, another year, another company, no ticker, no date.
GhgRecords ==
    {GhgRecord(TickerA, Date(2019, 12, 31), Fin(60)),
     GhgRecord(TickerA, Date(2019, 12, 31), Fin(180)),
     GhgRecord(TickerA, Date(2019, 6, 30), NaN),
     GhgRecord(TickerA, Date(2020, 12, 31), Fin(120)),
     GhgRecord(TickerB, Date(2019, 12, 31), Fin(240)),
     GhgRecord(NaN, Date(2019, 12, 31), Fin(60)),
     GhgRecord(TickerA, NaT, Fin(60))}

Deal(ticker, date) ==
    ("Acquirer Ticker" :> ticker) @@ ("Deal Announce Date" :> date)

Deals ==
    {Deal(TickerA, Date(2020, 3, 15)), Deal(TickerA, Date(2021, 1, 1)),
     Deal(TickerB, Date(2020, 3, 15)), Deal(TickerA, NaT)}

InitMerge ==
    /\ \E n \in 0..MaxGhgRecords : ghg_data \in [1..n -> GhgRecords]
    /\ \E n \in 0..MaxMergeDeals : deals_data \in [1..n -> Deals]
    /\ merged_data = <<>>
    /\ mpc = "start"
    /\ RetryIdle
    /\ ScriptIdle
    /\ KwIdle
    /\ ClassIdle
    /\ HandoffIdle
    /\ RawIdle
    /\ CleanIdle
    /\ StdIdle
    /\ EventIdle
    /\ FetchIdle
    /\ CompanyIdle
    /\ ProbeIdle
    /\ NearestIdle
    /\ AnalysisIdle

ProcessGhgData ==
    /\ mpc = "start"
    /\ merged_data' = process_ghg_data(ghg_data, deals_data)
    /\ mpc' = "done"
    /\ UNCHANGED <<ghg_data, deals_data>>
    /\ UNCHANGED <<retryVars, scriptVars, kwVars, classVars, handoffVars, rawVars, cleanVars, stdVars, eventVars, fetchVars, companyVars, probeVars, nearestVars, analysisVars>>

NextMerge == ProcessGhgData

SpecMerge == InitMerge /\ [][NextMerge]_vars

\* The GHG records of a deal: those of its ticker whose period ends in the
\* year before the deal was announced.
RecordsOf(deal) ==
    { j \in 1..Len(ghg_data) :
        /\ ghg_data[j]["Acquirer Ticker"] = deal["Acquirer Ticker"]
        /\ ghg_data[j]["periodenddate"].t = "date"
        /\ deal["Deal Announce Date"].t = "date"
        /\ ghg_data[j]["periodenddate"].v[1] = deal["Deal Announce Date"].v[1] - 1 }

ValuesOf(deal) == { j \in RecordsOf(deal) : ghg_data[j]["GHG_Emissions"].t = "fin" }

RECURSIVE Total(_)
Total(J) ==
    IF J = {} THEN 0
    ELSE LET j == CHOOSE j \in J : TRUE
         IN ghg_data[j]["GHG_Emissions"].v + Total(J \ {j})

\* C10: process_ghg_data returns one row per deal, in the order of the deals
\* and with the deal's own values, whatever the GHG table holds; the row
\* carries the mean of the emissions of the deal's GHG records (its ticker,
\* the year before its announcement), or a missing value when it has none.
C10_OneRowPerDeal ==
    mpc = "done" =>
        /\ Len(merged_data) = Len(deals_data)
        /\ \A i \in 1..Len(merged_data) :
              /\ \A c \in DOMAIN deals_data[i] : merged_data[i][c] = deals_data[i][c]
              /\ LET e == merged_data[i]["Acquirer_GHG_Emissions"]
                     J == ValuesOf(deals_data[i])
                 IN IF J = {} THEN e = NaN
                    ELSE e.t = "fin" /\ e.v * Cardinality(J) = Total(J)

\* Two deals, the first with two GHG records of different emissions.
C10_Witness ==
    /\ mpc = "done"
    /\ Len(deals_data) = 2
    /\ Cardinality(ValuesOf(deals_data[1])) = 2
    /\ merged_data[1]["Acquirer_GHG_Emissions"] = Fin(120)
    /\ merged_data[2]["Acquirer_GHG_Emissions"] = NaN

(***************************************************************************)
(* merge_raw_all_sources.py: the three loaders and merge_all_data.         *)
(***************************************************************************)

DigitChar == <<"0", "1", "2", "3", "4", "5", "6", "7", "8", "9">>

DigitValue(c) == (CHOOSE i \in 1..10 : DigitChar[i] = c) - 1

IsNumber(s) == s # <<>> /\ \A i \in 1..Len(s) : s[i] \in Digits

\* int(s) for a string of digits
RECURSIVE int(_)
int(s) ==
    IF s = <<>> THEN 0
    ELSE 10 * int(SubSeq(s, 1, Len(s) - 1)) + DigitValue(s[Len(s)])

\* str(n) for an integer n >= 0
RECURSIVE IntStr(_)
IntStr(n) ==
    IF n < 10 THEN <<DigitChar[n + 1]>>
    ELSE IntStr(n \div 10) \o <<DigitChar[(n % 10) + 1]>>

IsLeap(y) == (y % 4 = 0 /\ y % 100 # 0) \/ y % 400 = 0

DaysIn(y, m) ==
    IF m = 2 THEN (IF IsLeap(y) THEN 29 ELSE 28)
    ELSE IF m \in {4, 6, 9, 11} THEN 30 ELSE 31

\* datetime.strptime(s, fmt) for a format of three numeric fields: order names
\* them ("d", "m", "Y") and sep parts them.  None stands for the ValueError.
strptime(s, order, sep) ==
    LET parts == split(s, sep)
        field(f) == parts[CHOOSE k \in 1..3 : order[k] = f]
        fits(k) == /\ IsNumber(parts[k])
                   /\ IF order[k] = "Y" THEN Len(parts[k]) = 4 ELSE Len(parts[k]) \in {1, 2}
    IN IF Len(parts) # 3 \/ \E k \in 1..3 : ~fits(k) THEN None
       ELSE LET y == int(field("Y"))
                m == int(field("m"))
                d == int(field("d"))
            IN IF y >= 1 /\ m \in 1..12 /\ d \in 1..DaysIn(y, m) THEN Date(y, m, d)
               ELSE None

\* date_formats of parse_date
date_formats ==
    << [order |-> <<"d", "m", "Y">>, sep |-> <<"-">>],
       [order |-> <<"Y", "m", "d">>, sep |-> <<"-">>],
       [order |-> <<"m", "d", "Y">>, sep |-> <<"/">>],
       [order |-> <<"d", "m", "Y">>, sep |-> <<"/">>],
       [order |-> <<"Y", "m", "d">>, sep |-> <<"/">>] >>

\* parse_date(date_str): the first format that reads the string.  A string
\* none of them reads is one pd.to_datetime does not read either (of the
\* strings tried here), which gives None.
RECURSIVE ParseFrom(_, _)
ParseFrom(date_str, k) ==
    IF k > Len(date_formats) THEN None
    ELSE LET d == strptime(date_str, date_formats[k].order, date_formats[k].sep)
         IN IF d # None THEN d ELSE ParseFrom(date_str, k + 1)

parse_date(date_str) == IF isna(date_str) THEN None ELSE ParseFrom(date_str.v, 1)

\* get_previous_year(date): the reference year, the date being one year back.
get_previous_year(date) == IF date.t # "date" THEN None ELSE Fin(date.v[1] - 1)

\* load_ma_data: Reference_Year and GHG_Reference_Date are added.  The years
\* come out of apply as a column of integers, and as a column of floats once
\* one of them is None: then f"31-12-{year}" formats 2019.0, not 2019.
load_ma_data(file) ==
    LET year(i) == get_previous_year(parse_date(file[i]["Announce Date"]))
        asFloat == \E i \in 1..Len(file) : isna(year(i))
    IN [i \in 1..Len(file) |->
          file[i] @@
          ("Reference_Year" :> IF isna(year(i)) THEN NaN ELSE year(i)) @@
          ("GHG_Reference_Date" :>
              IF isna(year(i)) THEN None
              ELSE Str(<<"3", "1", "-", "1", "2", "-">> \o IntStr(year(i).v)
                       \o (IF asFloat THEN <<".", "0">> ELSE <<>>)))]

\* a < b for the cells of a key column: strings or numbers
CellLess(a, b) == IF a.t = "str" THEN StrLess(a.v, b.v) ELSE a.v < b.v

RECURSIVE SortedPairs(_)
SortedPairs(S) ==
    IF S = {} THEN <<>>
    ELSE LET m == CHOOSE k \in S : \A o \in S \ {k} :
                     CellLess(k[1], o[1]) \/ (k[1] = o[1] /\ CellLess(k[2], o[2]))
         IN <<m>> \o SortedPairs(S \ {m})

\* df.groupby([k1, k2])[val].mean().reset_index(), the mean renamed to out
groupby2_mean(rows, k1, k2, val, out) ==
    LET key(r) == <<r[k1], r[k2]>>
        keys == SortedPairs({ key(rows[k]) : k \in { j \in 1..Len(rows) :
                                ~isna(rows[j][k1]) /\ ~isna(rows[j][k2]) } })
    IN [g \in 1..Len(keys) |->
          LET members == SelectSeq(rows, LAMBDA r : key(r) = keys[g])
          IN (k1 :> keys[g][1]) @@ (k2 :> keys[g][2]) @@
             (out :> mean([k \in 1..Len(members) |-> members[k][val]]))]

\* load_ghg_data: the records with a ticker, averaged by ticker and date.
load_ghg_data(file) ==
    LET df == SelectSeq(file, LAMBDA r : ~isna(r["Ticker"]) /\ r["Ticker"] # Str(<<>>))
    IN groupby2_mean(df, "Ticker", "periodenddate", "GHG_Emissions", "Acquirer_GHG_Emissions")

\* load_sales_data: the two columns renamed, averaged by ticker and year.
load_sales_data(file) ==
    LET df == [k \in 1..Len(file) |->
                 ("Ticker" :> file[k]["List of Tickers"]) @@ ("Year" :> file[k]["Year"]) @@
                 ("Annual_Sales" :> file[k]["Sales in Mn. Dollars"])]
    IN groupby2_mean(df, "Ticker", "Year", "Annual_Sales", "Annual_Sales")

\* Two key cells that pd.merge takes for equal: missing keys match each other.
KeyEq(a, b) == (isna(a) /\ isna(b)) \/ (~isna(a) /\ a = b)

\* pd.merge(left, right, left_on=..., right_on=..., how='left'), rcols being
\* the columns the right table adds.
RECURSIVE merge_left(_, _, _, _, _)
merge_left(left, right, left_on, right_on, rcols) ==
    IF left = <<>> THEN <<>>
    ELSE
    LET l == Head(left)
        matches == SelectSeq(right, LAMBDA r :
                      \A k \in 1..Len(left_on) : KeyEq(l[left_on[k]], r[right_on[k]]))
        joined == IF matches = <<>>
                  THEN << l @@ [c \in rcols |-> NaN] >>
                  ELSE [k \in 1..Len(matches) |-> l @@ [c \in rcols |-> matches[k][c]]]
    IN joined \o merge_left(Tail(left), right, left_on, right_on, rcols)

\* The quotient e / s, kept as the pair.
Ratio(e, s) == [t |-> "ratio", v |-> <<e.v, s.v>>]

\* column_order of merge_all_data
merge_column_order ==
    {"Announce Date", "Reference_Year", "Ticker", "Acquirer Name", "Annual_Sales",
     "Acquirer_GHG_Emissions", "Carbon_Intensity", "Target Name", "Seller Name",
     "Announced Total Value (mil.)", "TV/EBITDA", "Deal Status"}

merge_all_data(ma_data, ghg, sales) ==
    LET m1 == merge_left(ma_data, ghg, <<"Ticker", "GHG_Reference_Date">>,
                         <<"Ticker", "periodenddate">>,
                         {"periodenddate", "Acquirer_GHG_Emissions"})
        m2 == merge_left(m1, sales, <<"Ticker", "Reference_Year">>, <<"Ticker", "Year">>,
                         {"Year", "Annual_Sales"})
        m3 == SelectSeq(m2, LAMBDA r :
                 ~isna(r["Acquirer_GHG_Emissions"]) /\ ~isna(r["Annual_Sales"]))
        intensity(r) == IF Positive(r["Annual_Sales"])
                        THEN Ratio(r["Acquirer_GHG_Emissions"], r["Annual_Sales"])
                        ELSE NaN
    IN [k \in 1..Len(m3) |->
          [c \in (DOMAIN m3[k] \cup {"Carbon_Intensity"}) \cap merge_column_order |->
              IF c = "Carbon_Intensity" THEN intensity(m3[k]) ELSE m3[k][c]]]

\* The most deals of the M&A file, and the most records a GHG or sales file
\* holds for one key.
MaxMaRows == 2

MaxDuplicates == 2

\* The i-th deal of the M&A file.
MaRow(i, ticker, date) ==
    ("Ticker" :> ticker) @@ ("Announce Date" :> date) @@
    ("Target Name" :> Str(<<"T", DigitChar[i + 1]>>))

\* The tickers and dates of the deals tried: two formats, a missing date and
\* a text that is no date.
MaDeals ==
    {<<TickerA, ADate>>,
     <<TickerB, Str(<<"2", "0", "2", "0", "/", "0", "6", "/", "0", "1">>)>>,
     <<TickerA, NaN>>,
     <<TickerB, Str(<<"s", "o", "o", "n">>)>>}

Dec31(year) == Str(<<"3", "1", "-", "1", "2", "-">> \o IntStr(year))

\* The keys of the GHG and the sales file, and the value of the j-th record
\* of a key.
GhgKeys == << <<TickerA, Dec31(2019)>>, <<TickerB, Dec31(2019)>>, <<NaN, Dec31(2019)>> >>

GhgValue(k, j) ==
    IF k = 1 THEN (IF j = 1 THEN Fin(60) ELSE IF j = 2 THEN Fin(180) ELSE NaN)
    ELSE (IF j = 1 THEN NaN ELSE Fin(120))

SalesKeys == << <<TickerA, Fin(2019)>>, <<TickerB, Fin(2019)>> >>

SalesValue(k, j) ==
    IF k = 1 THEN (IF j = 1 THEN Fin(2) ELSE IF j = 2 THEN Fin(4) ELSE NaN)
    ELSE (IF j = 1 THEN NaN ELSE Fin(0))

\* A file that holds count[k] records of the k-th key: the (key, record)
\* pairs of its rows.
RECURSIVE RecordsFrom(_, _)
RecordsFrom(count, k) ==
    IF k > Len(count) THEN <<>>
    ELSE [j \in 1..count[k] |-> <<k, j>>] \o RecordsFrom(count, k + 1)

GhgFile(count) ==
    LET kj == RecordsFrom(count, 1)
    IN [r \in 1..Len(kj) |->
          ("Ticker" :> GhgKeys[kj[r][1]][1]) @@ ("periodenddate" :> GhgKeys[kj[r][1]][2]) @@
          ("GHG_Emissions" :> GhgValue(kj[r][1], kj[r][2]))]

SalesFile(count) ==
    LET kj == RecordsFrom(count, 1)
    IN [r \in 1..Len(kj) |->
          ("List of Tickers" :> SalesKeys[kj[r][1]][1]) @@ ("Year" :> SalesKeys[kj[r][1]][2]) @@
          ("Sales in Mn. Dollars" :> SalesValue(kj[r][1], kj[r][2]))]

InitRaw ==
    /\ \E n \in 1..MaxMaRows : \E td \in [1..n -> MaDeals] :
          ma_csv = [i \in 1..n |-> MaRow(i, td[i][1], td[i][2])]
    /\ \E count \in [1..Len(GhgKeys) -> 0..MaxDuplicates] : ghg_csv = GhgFile(count)
    /\ \E count \in [1..Len(SalesKeys) -> 0..MaxDuplicates] : sales_csv = SalesFile(count)
    /\ merged_csv = [written |-> FALSE, cols |-> {}, rows |-> <<>>]
    /\ apc = "start"
    /\ RetryIdle
    /\ ScriptIdle
    /\ KwIdle
    /\ ClassIdle
    /\ HandoffIdle
    /\ MergeIdle
    /\ CleanIdle
    /\ StdIdle
    /\ EventIdle
    /\ FetchIdle
    /\ CompanyIdle
    /\ ProbeIdle
    /\ NearestIdle
    /\ AnalysisIdle

\* main: the three files are loaded and merged, and the result is saved.
MergeRawMain ==
    /\ apc = "start"
    /\ LET merged == merge_all_data(load_ma_data(ma_csv), load_ghg_data(ghg_csv),
                                    load_sales_data(sales_csv))
       IN merged_csv' = [written |-> TRUE,
                         cols |-> IF merged = <<>> THEN {} ELSE DOMAIN merged[1],
                         rows |-> merged]
    /\ apc' = "done"
    /\ UNCHANGED <<ma_csv, ghg_csv, sales_csv>>
    /\ UNCHANGED <<retryVars, scriptVars, kwVars, classVars, handoffVars, mergeVars, cleanVars, stdVars, eventVars, fetchVars, companyVars, probeVars, nearestVars, analysisVars>>

NextRaw == MergeRawMain

SpecRaw == InitRaw /\ [][NextRaw]_vars

\* The deals merge_all_data is to output: the announcement date is read, the
\* GHG file has a record with a value for the ticker and the 31st of December
\* of the year before, and the sales file one for the ticker and that year.
HasGhgAndSales(i) ==
    LET date == parse_date(ma_csv[i]["Announce Date"])
        ticker == ma_csv[i]["Ticker"]
    IN /\ date.t = "date"
       /\ \E j \in 1..Len(ghg_csv) :
             /\ ghg_csv[j]["Ticker"] = ticker
             /\ ghg_csv[j]["periodenddate"] = Dec31(date.v[1] - 1)
             /\ ~isna(ghg_csv[j]["GHG_Emissions"])
       /\ \E j \in 1..Len(sales_csv) :
             /\ sales_csv[j]["List of Tickers"] = ticker
             /\ sales_csv[j]["Year"] = Fin(date.v[1] - 1)
             /\ ~isna(sales_csv[j]["Sales in Mn. Dollars"])

\* C11: the rows merge_all_data puts out are, in order and once each, the
\* deals that have a GHG record for 31-12-(announce year - 1) and a sales
\* record for that year, both with a value, whatever duplicates the raw
\* files hold.
C11_DealsWithGhgAndSales ==
    apc = "done" =>
        LET want == SelectSeq([i \in 1..Len(ma_csv) |-> i], HasGhgAndSales)
        IN /\ merged_csv.written
           /\ Len(merged_csv.rows) = Len(want)
           /\ \A k \in 1..Len(want) :
                 merged_csv.rows[k]["Target Name"] = ma_csv[want[k]]["Target Name"]

(***************************************************************************)
(* clean_master_data (clean_master_data.py)                                *)
(***************************************************************************)

\* The rows as they are: no duplicate is dropped.
keep_duplicates(rows) == rows

\* df.drop_duplicates(): of rows equal in every column the first is kept;
\* missing values count as equal.
drop_duplicates(rows) ==
    LET first == { i \in 1..Len(rows) : \A j \in 1..(i - 1) : rows[j] # rows[i] }
        idx == Ascending(first)
    IN [k \in 1..Len(idx) |-> rows[idx[k]]]

\* df.dropna(subset=subset)
dropna(rows, subset) == SelectSeq(rows, LAMBDA r : \A c \in subset : ~isna(r[c]))

\* required_columns of clean_master_data
clean_required_columns ==
    {"T_minus_10_Date", "T_minus_10_Price", "T_plus_10_Date", "T_plus_10_Price",
     "Market_Cap_AD_mil", "ROA_percent", "Acquirer_GHG_Emissions"}

\* clean_master_data on the table read: the table written, or the KeyError of
\* a file that lacks a required column.
clean_master_data(df) ==
    IF ~(clean_required_columns \subseteq df.cols) THEN Raised
    ELSE Returned(dropna(drop_duplicates(df.rows), clean_required_columns))

\* The most rows of master_data.csv.
MaxCleanRows == 3

\* A row of master_data.csv: an acquirer, and every required value present
\* but those of the columns in missing.
MasterRow(cols, name, missing) ==
    [c \in cols |->
        IF c = "Acquirer Name" THEN name
        ELSE IF c \in missing THEN NaN
        ELSE IF c \in {"T_minus_10_Date", "T_plus_10_Date"} THEN ADate
        ELSE Fin(1)]

MasterColumns == clean_required_columns \cup {"Acquirer Name", "TV/EBITDA"}

\* The rows tried: two acquirers (one without a name), nothing missing, one
\* required value missing, two missing, a value missing that is not required.
MasterRows(cols) ==
    { MasterRow(cols, name, missing) :
        name \in {Str(<<"C", "o">>), NaN},
        missing \in {{}, {"T_minus_10_Date"}, {"ROA_percent", "Acquirer_GHG_Emissions"},
                     {"TV/EBITDA"}} }

InitClean ==
    /\ \E cols \in {MasterColumns, MasterColumns \ {"ROA_percent"}} :
       \E n \in 0..MaxCleanRows :
       \E rows \in [1..n -> MasterRows(cols)] :
          master_csv = [cols |-> cols, rows |-> rows]
    /\ cleaned_csv = [written |-> FALSE, rows |-> <<>>]
    /\ kpc = "start"
    /\ RetryIdle
    /\ ScriptIdle
    /\ KwIdle
    /\ ClassIdle
    /\ HandoffIdle
    /\ MergeIdle
    /\ RawIdle
    /\ StdIdle
    /\ EventIdle
    /\ FetchIdle
    /\ CompanyIdle
    /\ ProbeIdle
    /\ NearestIdle
    /\ AnalysisIdle

CleanMasterData ==
    /\ kpc = "start"
    /\ LET r == clean_master_data(master_csv)
       IN IF r.raised
          THEN /\ kpc' = "raised"
               /\ UNCHANGED cleaned_csv
          ELSE /\ kpc' = "done"
               /\ cleaned_csv' = [written |-> TRUE, rows |-> r.value]
    /\ UNCHANGED master_csv
    /\ UNCHANGED <<retryVars, scriptVars, kwVars, classVars, handoffVars, mergeVars, rawVars, stdVars, eventVars, fetchVars, companyVars, probeVars, nearestVars, analysisVars>>

NextClean == CleanMasterData

SpecClean == InitClean /\ [][NextClean]_vars

Complete(row) == \A c \in clean_required_columns : ~isna(row[c])

\* The place in master_data.csv of the first row equal to a given one.
FirstPlace(row) ==
    CHOOSE i \in 1..Len(master_csv.rows) :
        /\ master_csv.rows[i] = row
        /\ \A j \in 1..(i - 1) : master_csv.rows[j] # row

\* C12: the table clean_master_data writes has no two identical rows and no
\* missing value in a required column; its rows are rows of the input in the
\* order of the input, and every input row with all required values is in
\* it, once.
C12_CleanedTable ==
    cleaned_csv.written =>
        LET out == cleaned_csv.rows
            inp == master_csv.rows
        IN /\ \A k, m \in 1..Len(out) : k # m => out[k] # out[m]
           /\ \A k \in 1..Len(out) : Complete(out[k])
           /\ \A k \in 1..Len(out) : \E i \in 1..Len(inp) : inp[i] = out[k]
           /\ \A k, m \in 1..Len(out) : k < m => FirstPlace(out[k]) < FirstPlace(out[m])
           /\ \A i \in 1..Len(inp) :
                 Complete(inp[i]) => Cardinality({ k \in 1..Len(out) : out[k] = inp[i] }) = 1

\* A complete row twice and an incomplete one: one row is written.
C12_Witness ==
    /\ cleaned_csv.written
    /\ Len(master_csv.rows) = 3
    /\ master_csv.rows[1] = master_csv.rows[3]
    /\ Complete(master_csv.rows[1])
    /\ ~Complete(master_csv.rows[2])
    /\ Len(cleaned_csv.rows) = 1

(***************************************************************************)
(* standardize_data (standardize_stock_data.py).  Column names are strings *)
(* of characters; a column holds the same value in every row.              *)
(***************************************************************************)

\* column_mapping, in the order of the dict: <<pattern, standard name>>
column_mapping(day) ==
    << <<<<"a", "n", "n", "o", "u", "n", "c", "e", " ", "d", "a", "t", "e">>, <<"A", "n", "n", "o", "u", "n", "c", "e", " ", "D", "a", "t", "e">>>>,
       <<<<"r", "e", "f", "e", "r", "e", "n", "c", "e", "_", "y", "e", "a", "r">>, <<"R", "e", "f", "e", "r", "e", "n", "c", "e", "_", "Y", "e", "a", "r">>>>,
       <<<<"r", "e", "f", "e", "r", "e", "n", "c", "e", " ", "y", "e", "a", "r">>, <<"R", "e", "f", "e", "r", "e", "n", "c", "e", "_", "Y", "e", "a", "r">>>>,
       <<<<"t", "i", "c", "k", "e", "r">>, <<"T", "i", "c", "k", "e", "r">>>>,
       <<<<"a", "c", "q", "u", "i", "r", "e", "r", " ", "n", "a", "m", "e">>, <<"A", "c", "q", "u", "i", "r", "e", "r", " ", "N", "a", "m", "e">>>>,
       <<<<"a", "n", "n", "u", "a", "l", "_", "s", "a", "l", "e", "s">>, <<"A", "n", "n", "u", "a", "l", "_", "S", "a", "l", "e", "s">>>>,
       <<<<"a", "c", "q", "u", "i", "r", "e", "r", "_", "g", "h", "g", "_", "e", "m", "i", "s", "s", "i", "o", "n", "s">>, <<"A", "c", "q", "u", "i", "r", "e", "r", "_", "G", "H", "G", "_", "E", "m", "i", "s", "s", "i", "o", "n", "s">>>>,
       <<<<"c", "a", "r", "b", "o", "n", "_", "i", "n", "t", "e", "n", "s", "i", "t", "y">>, <<"C", "a", "r", "b", "o", "n", "_", "I", "n", "t", "e", "n", "s", "i", "t", "y">>>>,
       <<<<"a", "c", "q", "u", "i", "r", "e", "r", "_", "c", "l", "a", "s", "s", "i", "f", "i", "c", "a", "t", "i", "o", "n">>, <<"A", "c", "q", "u", "i", "r", "e", "r", "_", "C", "l", "a", "s", "s", "i", "f", "i", "c", "a", "t", "i", "o", "n">>>>,
       <<<<"t", "a", "r", "g", "e", "t", " ", "n", "a", "m", "e">>, <<"T", "a", "r", "g", "e", "t", " ", "N", "a", "m", "e">>>>,
       <<<<"t", "a", "r", "g", "e", "t", "_", "c", "l", "a", "s", "s", "i", "f", "i", "c", "a", "t", "i", "o", "n">>, <<"T", "a", "r", "g", "e", "t", "_", "C", "l", "a", "s", "s", "i", "f", "i", "c", "a", "t", "i", "o", "n">>>>,
       <<<<"s", "e", "l", "l", "e", "r", " ", "n", "a", "m", "e">>, <<"S", "e", "l", "l", "e", "r", " ", "N", "a", "m", "e">>>>,
       <<<<"a", "n", "n", "o", "u", "n", "c", "e", "d", " ", "t", "o", "t", "a", "l", " ", "v", "a", "l", "u", "e", " ", "(", "m", "i", "l", ".", ")">>, <<"A", "n", "n", "o", "u", "n", "c", "e", "d", " ", "T", "o", "t", "a", "l", " ", "V", "a", "l", "u", "e", " ", "(", "m", "i", "l", ".", ")">>>>,
       <<<<"t", "v", "/", "e", "b", "i", "t", "d", "a">>, <<"T", "V", "/", "E", "B", "I", "T", "D", "A">>>>,
       <<<<"p", "e", "r", "c", "e", "n", "t", "_", "r", "e", "t", "u", "r", "n">>, <<"P", "e", "r", "c", "e", "n", "t", "_", "R", "e", "t", "u", "r", "n">>>>,
       <<<<"d", "e", "a", "l", " ", "s", "t", "a", "t", "u", "s">>, <<"D", "e", "a", "l", " ", "S", "t", "a", "t", "u", "s">>>>,
       <<<<"t", "_", "m", "i", "n", "u", "s", "_">> \o IntStr(day) \o <<"_", "d", "a", "t", "e">>, <<"T", "_", "m", "i", "n", "u", "s", "_">> \o IntStr(day) \o <<"_", "D", "a", "t", "e">>>>,
       <<<<"t", "_", "m", "i", "n", "u", "s", "_">> \o IntStr(day) \o <<"_", "p", "r", "i", "c", "e">>, <<"T", "_", "m", "i", "n", "u", "s", "_">> \o IntStr(day) \o <<"_", "P", "r", "i", "c", "e">>>>,
       <<<<"t", "_", "p", "l", "u", "s", "_">> \o IntStr(day) \o <<"_", "d", "a", "t", "e">>, <<"T", "_", "p", "l", "u", "s", "_">> \o IntStr(day) \o <<"_", "D", "a", "t", "e">>>>,
       <<<<"t", "_", "p", "l", "u", "s", "_">> \o IntStr(day) \o <<"_", "p", "r", "i", "c", "e">>, <<"T", "_", "p", "l", "u", "s", "_">> \o IntStr(day) \o <<"_", "P", "r", "i", "c", "e">>>>,
       <<<<"t", "-">> \o IntStr(day) \o <<"_", "d", "a", "t", "e">>, <<"T", "_", "m", "i", "n", "u", "s", "_">> \o IntStr(day) \o <<"_", "D", "a", "t", "e">>>>,
       <<<<"t", "-">> \o IntStr(day) \o <<"_", "p", "r", "i", "c", "e">>, <<"T", "_", "m", "i", "n", "u", "s", "_">> \o IntStr(day) \o <<"_", "P", "r", "i", "c", "e">>>>,
       <<<<"t", "+">> \o IntStr(day) \o <<"_", "d", "a", "t", "e">>, <<"T", "_", "p", "l", "u", "s", "_">> \o IntStr(day) \o <<"_", "D", "a", "t", "e">>>>,
       <<<<"t", "+">> \o IntStr(day) \o <<"_", "p", "r", "i", "c", "e">>, <<"T", "_", "p", "l", "u", "s", "_">> \o IntStr(day) \o <<"_", "P", "r", "i", "c", "e">>>> >>

final_columns(day) ==
    << <<"A", "n", "n", "o", "u", "n", "c", "e", " ", "D", "a", "t", "e">>,
       <<"R", "e", "f", "e", "r", "e", "n", "c", "e", "_", "Y", "e", "a", "r">>,
       <<"T", "i", "c", "k", "e", "r">>,
       <<"A", "c", "q", "u", "i", "r", "e", "r", " ", "N", "a", "m", "e">>,
       <<"A", "n", "n", "u", "a", "l", "_", "S", "a", "l", "e", "s">>,
       <<"A", "c", "q", "u", "i", "r", "e", "r", "_", "G", "H", "G", "_", "E", "m", "i", "s", "s", "i", "o", "n", "s">>,
       <<"C", "a", "r", "b", "o", "n", "_", "I", "n", "t", "e", "n", "s", "i", "t", "y">>,
       <<"A", "c", "q", "u", "i", "r", "e", "r", "_", "C", "l", "a", "s", "s", "i", "f", "i", "c", "a", "t", "i", "o", "n">>,
       <<"T", "a", "r", "g", "e", "t", " ", "N", "a", "m", "e">>,
       <<"T", "a", "r", "g", "e", "t", "_", "C", "l", "a", "s", "s", "i", "f", "i", "c", "a", "t", "i", "o", "n">>,
       <<"S", "e", "l", "l", "e", "r", " ", "N", "a", "m", "e">>,
       <<"A", "n", "n", "o", "u", "n", "c", "e", "d", " ", "T", "o", "t", "a", "l", " ", "V", "a", "l", "u", "e", " ", "(", "m", "i", "l", ".", ")">>,
       <<"T", "V", "/", "E", "B", "I", "T", "D", "A">>,
       <<"T", "_", "m", "i", "n", "u", "s", "_">> \o IntStr(day) \o <<"_", "D", "a", "t", "e">>,
       <<"T", "_", "m", "i", "n", "u", "s", "_">> \o IntStr(day) \o <<"_", "P", "r", "i", "c", "e">>,
       <<"T", "_", "p", "l", "u", "s", "_">> \o IntStr(day) \o <<"_", "D", "a", "t", "e">>,
       <<"T", "_", "p", "l", "u", "s", "_">> \o IntStr(day) \o <<"_", "P", "r", "i", "c", "e">>,
       <<"P", "e", "r", "c", "e", "n", "t", "_", "R", "e", "t", "u", "r", "n">>,
       <<"D", "e", "a", "l", " ", "S", "t", "a", "t", "u", "s">> >>

\* flexible_patterns, in the order of the dict: the standard name, the
\* beginnings a match may have (t[-_]10 is t-10 or t_10) and the word that
\* has to follow somewhere after it.
flexible_patterns(day) ==
    << [target |-> <<"T", "_", "m", "i", "n", "u", "s", "_">> \o IntStr(day) \o <<"_", "D", "a", "t", "e">>,
        heads |-> {<<"t", "-">> \o IntStr(day), <<"t", "_">> \o IntStr(day),
                   <<"t", "m", "i", "n", "u", "s">> \o IntStr(day)},
        tail |-> <<"d", "a", "t", "e">>],
       [target |-> <<"T", "_", "m", "i", "n", "u", "s", "_">> \o IntStr(day) \o <<"_", "P", "r", "i", "c", "e">>,
        heads |-> {<<"t", "-">> \o IntStr(day), <<"t", "_">> \o IntStr(day),
                   <<"t", "m", "i", "n", "u", "s">> \o IntStr(day)},
        tail |-> <<"p", "r", "i", "c", "e">>],
       [target |-> <<"T", "_", "p", "l", "u", "s", "_">> \o IntStr(day) \o <<"_", "D", "a", "t", "e">>,
        heads |-> {<<"t", "+">> \o IntStr(day), <<"t", "_">> \o IntStr(day),
                   <<"t", "p", "l", "u", "s">> \o IntStr(day)},
        tail |-> <<"d", "a", "t", "e">>],
       [target |-> <<"T", "_", "p", "l", "u", "s", "_">> \o IntStr(day) \o <<"_", "P", "r", "i", "c", "e">>,
        heads |-> {<<"t", "+">> \o IntStr(day), <<"t", "_">> \o IntStr(day),
                   <<"t", "p", "l", "u", "s">> \o IntStr(day)},
        tail |-> <<"p", "r", "i", "c", "e">>] >>

\* No standard name: the column is not renamed.
NoTarget == <<>>

\* The place of the first entry that ok accepts, 0 when there is none.
FirstEntry(entries, ok(_)) ==
    LET hits == { k \in 1..Len(entries) : ok(entries[k]) }
    IN IF hits = {} THEN 0 ELSE CHOOSE k \in hits : \A j \in hits : k <= j

\* The exact match of the first loop: column_mapping[original_col.lower()]
ExactTarget(name, day) ==
    LET hit(e) == e[1] = lower(name)
        k == FirstEntry(column_mapping(day), hit)
    IN IF k = 0 THEN NoTarget ELSE column_mapping(day)[k][2]

\* re.search of a flexible pattern: one of the heads somewhere, the tail
\* anywhere behind it.
SearchPattern(p, s) ==
    \E h \in p.heads : \E i \in 1..Len(s) :
        StartsAt(h, s, i) /\ InFrom(p.tail, s, i + Len(h))

\* pattern in s or any(word in s for word in pattern.split('_'))
WordMatch(pattern, s) ==
    LET words == split(pattern, <<"_">>)
    IN In(pattern, s) \/ \E w \in 1..Len(words) : In(words[w], s)

\* The standard name the second loop gives a column not yet renamed, the
\* names in to_find being those no column has yet.
LooseTarget(name, day, to_find) ==
    LET lowercase_col == lower(name)
        flex(p) == p.target \in to_find /\ SearchPattern(p, lowercase_col)
        f == FirstEntry(flexible_patterns(day), flex)
        loose(e) == e[2] \in to_find /\ WordMatch(e[1], lowercase_col)
        m == FirstEntry(column_mapping(day), loose)
    IN IF f # 0 THEN flexible_patterns(day)[f].target
       ELSE IF m # 0 THEN column_mapping(day)[m][2]
       ELSE NoTarget

\* The second loop from the i-th column on: renamed_columns at its end.
RECURSIVE MatchRemaining(_, _, _, _, _)
MatchRemaining(columns, i, renamed, to_find, day) ==
    IF i > Len(columns) THEN renamed
    ELSE IF renamed[i] # NoTarget THEN MatchRemaining(columns, i + 1, renamed, to_find, day)
    ELSE LET target == LooseTarget(columns[i], day, to_find)
         IN MatchRemaining(columns, i + 1, [renamed EXCEPT ![i] = target],
                           to_find \ {target}, day)

\* renamed_columns after both loops, by the place of the column
renamed_columns(columns, day) ==
    LET exact == [i \in 1..Len(columns) |-> ExactTarget(columns[i], day)]
        final == { final_columns(day)[k] : k \in 1..Len(final_columns(day)) }
        target_cols_to_find == final \ { exact[i] : i \in 1..Len(columns) }
    IN MatchRemaining(columns, 1, exact, target_cols_to_find, day)

\* df_renamed.columns: of columns renamed to one name the first keeps it, the
\* others get _dup and their place appended.
renamed_names(columns, renamed) ==
    LET name(i) == IF renamed[i] # NoTarget THEN renamed[i] ELSE columns[i]
    IN [i \in 1..Len(columns) |->
          IF \E j \in 1..(i - 1) : name(j) = name(i)
          THEN name(i) \o <<"_", "d", "u", "p">> \o IntStr(i - 1)
          ELSE name(i)]

\* pd.to_numeric(errors='coerce'), and the infinities replaced by nan
to_numeric(x) ==
    IF x.t = "fin" THEN x
    ELSE IF x.t = "str" /\ IsNumber(x.v) THEN Fin(int(x.v))
    ELSE NaN

\* pd.to_datetime(errors='coerce') of a cell: a number counts nanoseconds
\* from 1970-01-01; of a text, the year-first form and the three-field forms
\* with the year last are read, the month before the day unless dayfirst or
\* unless that is no date.
to_datetime(x, dayfirst) ==
    IF x.t = "fin" THEN Date(1970, 1, 1)
    ELSE IF x.t # "str" THEN NaT
    ELSE
    LET try(order, sep) == strptime(x.v, order, sep)
        ymd == << try(<<"Y", "m", "d">>, <<"-">>), try(<<"Y", "m", "d">>, <<"/">>) >>
        mdy == << try(<<"m", "d", "Y">>, <<"-">>), try(<<"m", "d", "Y">>, <<"/">>) >>
        dmy == << try(<<"d", "m", "Y">>, <<"-">>), try(<<"d", "m", "Y">>, <<"/">>) >>
        tries == ymd \o (IF dayfirst THEN dmy \o mdy ELSE mdy \o dmy)
        read == SelectSeq(tries, LAMBDA d : d # None)
    IN IF read = <<>> THEN NaT ELSE read[1]

Pad2(n) == IF n < 10 THEN <<"0">> \o IntStr(n) ELSE IntStr(n)

\* date.strftime('%Y-%m-%d')
strftime(d) == Str(IntStr(d.v[1]) \o <<"-">> \o Pad2(d.v[2]) \o <<"-">> \o Pad2(d.v[3]))

\* A date column of nrows equal cells: read, read again with the day first
\* when more than half of it came out missing, and written as year-month-day.
format_date_column(x, n) ==
    LET first == to_datetime(x, FALSE)
        missing == IF isna(first) THEN n ELSE 0
        dates == IF 2 * missing > n THEN to_datetime(x, TRUE) ELSE first
    IN IF isna(dates) THEN NaT ELSE strftime(dates)

numeric_cols(day) ==
    {<<"A", "n", "n", "u", "a", "l", "_", "S", "a", "l", "e", "s">>, <<"A", "c", "q", "u", "i", "r", "e", "r", "_", "G", "H", "G", "_", "E", "m", "i", "s", "s", "i", "o", "n", "s">>, <<"C", "a", "r", "b", "o", "n", "_", "I", "n", "t", "e", "n", "s", "i", "t", "y">>,
     <<"A", "n", "n", "o", "u", "n", "c", "e", "d", " ", "T", "o", "t", "a", "l", " ", "V", "a", "l", "u", "e", " ", "(", "m", "i", "l", ".", ")">>, <<"T", "V", "/", "E", "B", "I", "T", "D", "A">>, <<"P", "e", "r", "c", "e", "n", "t", "_", "R", "e", "t", "u", "r", "n">>,
     <<"T", "_", "m", "i", "n", "u", "s", "_">> \o IntStr(day) \o <<"_", "P", "r", "i", "c", "e">>,
     <<"T", "_", "p", "l", "u", "s", "_">> \o IntStr(day) \o <<"_", "P", "r", "i", "c", "e">>}

date_cols(day) ==
    {<<"A", "n", "n", "o", "u", "n", "c", "e", " ", "D", "a", "t", "e">>,
     <<"T", "_", "m", "i", "n", "u", "s", "_">> \o IntStr(day) \o <<"_", "D", "a", "t", "e">>,
     <<"T", "_", "p", "l", "u", "s", "_">> \o IntStr(day) \o <<"_", "D", "a", "t", "e">>}

\* denominations: the unit a column name gets
denominations(col, day) ==
    IF col = <<"A", "n", "n", "u", "a", "l", "_", "S", "a", "l", "e", "s">> THEN col \o <<" ", "(", "M", "i", "l", "l", "i", "o", "n", " ", "$", ")">>
    ELSE IF col = <<"A", "c", "q", "u", "i", "r", "e", "r", "_", "G", "H", "G", "_", "E", "m", "i", "s", "s", "i", "o", "n", "s">> THEN col \o <<" ", "(", "M", "e", "t", "r", "i", "c", " ", "T", "o", "n", "n", "e", "s", ")">>
    ELSE IF col \in {<<"T", "_", "m", "i", "n", "u", "s", "_">> \o IntStr(day) \o <<"_", "P", "r", "i", "c", "e">>,
                     <<"T", "_", "p", "l", "u", "s", "_">> \o IntStr(day) \o <<"_", "P", "r", "i", "c", "e">>}
    THEN col \o <<" ", "(", "$", ")">>
    ELSE col

standardize_data(df, day) ==
    LET columns == [i \in 1..Len(df.columns) |-> strip(df.columns[i])]
        names == renamed_names(columns, renamed_columns(columns, day))
        final == final_columns(day)
        from(col) == { i \in 1..Len(names) : names[i] = col }
        value(col) ==
            LET x == IF from(col) = {} THEN NaN
                     ELSE df.values[CHOOSE i \in from(col) : TRUE]
            IN IF col \in numeric_cols(day) THEN to_numeric(x)
               ELSE IF col \in date_cols(day) THEN format_date_column(x, df.nrows)
               ELSE x
    IN [returned |-> TRUE,
        columns |-> [k \in 1..Len(final) |-> denominations(final[k], day)],
        values |-> [k \in 1..Len(final) |-> value(final[k])],
        nrows |-> df.nrows]

\* The most columns and the most rows of the table passed in.
MaxColumns == 3

MaxStdRows == 1

DayValues == {5, 10}

\* The columns tried, each with the value it holds.
StdColumns ==
    { <<<<"T", "i", "c", "k", "e", "r">>, TickerA>>,
      <<<<" ", "t", "i", "c", "k", "e", "r">>, TickerB>>,
      <<<<"A", "n", "n", "o", "u", "n", "c", "e", " ", "D", "a", "t", "e">>, ADate>>,
      <<<<"T", "-", "1", "0", "_", "D", "a", "t", "e">>, Str(<<"2", "0", "2", "0", "-", "0", "3", "-", "0", "5">>)>>,
      <<<<"T", "_", "1", "0", " ", "T", "r", "a", "d", "e", " ", "D", "a", "t", "e">>, Str(<<"0", "3", "/", "0", "4", "/", "2", "0", "2", "0">>)>>,
      <<<<"T", "_", "m", "i", "n", "u", "s", "_", "1", "0", "_", "P", "r", "i", "c", "e">>, Fin(12)>>,
      <<<<"P", "e", "r", "c", "e", "n", "t", "_", "R", "e", "t", "u", "r", "n">>, Fin(3)>>,
      <<<<"R", "O", "A", "_", "p", "e", "r", "c", "e", "n", "t">>, Fin(5)>>,
      <<<<"M", "a", "r", "k", "e", "t", "_", "C", "a", "p">>, Fin(1500)>>,
      <<<<"s", "t", "a", "t", "u", "s">>, Str(<<"S", "u", "c", "c", "e", "s", "s">>)>>,
      <<<<"I", "n", "d", "e", "x">>, Fin(0)>> }

InitStd ==
    /\ \E n \in 0..MaxColumns : \E cs \in [1..n -> StdColumns] : \E rows \in 0..MaxStdRows :
          /\ \A i, j \in 1..n : i # j => cs[i] # cs[j]
          /\ std_df = [columns |-> [i \in 1..n |-> cs[i][1]],
                       values |-> [i \in 1..n |-> cs[i][2]],
                       nrows |-> rows]
    /\ day_value \in DayValues
    /\ df_standardized = [returned |-> FALSE, columns |-> <<>>, values |-> <<>>, nrows |-> 0]
    /\ tpc = "start"
    /\ RetryIdle
    /\ ScriptIdle
    /\ KwIdle
    /\ ClassIdle
    /\ HandoffIdle
    /\ MergeIdle
    /\ RawIdle
    /\ CleanIdle
    /\ EventIdle
    /\ FetchIdle
    /\ CompanyIdle
    /\ ProbeIdle
    /\ NearestIdle
    /\ AnalysisIdle

StandardizeData ==
    /\ tpc = "start"
    /\ df_standardized' = standardize_data(std_df, day_value)
    /\ tpc' = "done"
    /\ UNCHANGED <<std_df, day_value>>
    /\ UNCHANGED <<retryVars, scriptVars, kwVars, classVars, handoffVars, mergeVars, rawVars, cleanVars, eventVars, fetchVars, companyVars, probeVars, nearestVars, analysisVars>>

NextStd == StandardizeData

SpecStd == InitStd /\ [][NextStd]_vars

\* An input column that is the counterpart of a standard column: its name,
\* stripped and in lower case, is a key of column_mapping for it or fits one
\* of its flexible patterns.
Counterpart(name, target, day) ==
    \/ ExactTarget(strip(name), day) = target
    \/ \E k \in 1..Len(flexible_patterns(day)) :
          /\ flexible_patterns(day)[k].target = target
          /\ SearchPattern(flexible_patterns(day)[k], lower(strip(name)))

\* C13: standardize_data returns as many rows as it was given and the 19
\* standard columns in the order of final_columns, units added; a standard
\* column that has no counterpart among the input columns is missing in every
\* row, so no other input column survives.
C13_StandardColumns ==
    tpc = "done" =>
        LET final == final_columns(day_value)
        IN /\ df_standardized.nrows = std_df.nrows
           /\ Len(df_standardized.columns) = 19
           /\ \A k \in 1..19 :
                 df_standardized.columns[k] = denominations(final[k], day_value)
           /\ \A k \in 1..19 :
                 (\A i \in 1..Len(std_df.columns) :
                     ~Counterpart(std_df.columns[i], final[k], day_value))
                 => (std_df.nrows = 0 \/ isna(df_standardized.values[k]))

(***************************************************************************)
(* The event study: calculate_abnormal_returns                             *)
(* (SCRIPTS/data_analysis/event_study_analysis.py).  Returns are in per    *)
(* cent; the benchmark returns tried are multiples of 100, which keeps the *)
(* compounded return a whole number.                                       *)
(***************************************************************************)

\* a <= b for two dates
date_leq(a, b) ==
    \/ a.v[1] < b.v[1]
    \/ a.v[1] = b.v[1] /\ a.v[2] < b.v[2]
    \/ a.v[1] = b.v[1] /\ a.v[2] = b.v[2] /\ a.v[3] <= b.v[3]

\* winsorize_returns(returns), limits (0.01, 0.01): of the n values that are
\* not missing the int(0.01 * n) lowest are raised to the next one and the
\* int(0.01 * n) highest lowered to the one before; a column with no value
\* is returned as it is.
winsorize_returns(returns) ==
    LET idx == { i \in 1..Len(returns) : ~isna(returns[i]) }
        n == Cardinality(idx)
        k == n \div 100
        kth(j) == CHOOSE x \in { returns[i].v : i \in idx } :
                     /\ Cardinality({ i \in idx : returns[i].v < x }) < j
                     /\ j <= Cardinality({ i \in idx : returns[i].v <= x })
        clip(x) == IF x < kth(k + 1) THEN kth(k + 1)
                   ELSE IF x > kth(n - k) THEN kth(n - k)
                   ELSE x
    IN IF n = 0 THEN returns
       ELSE [i \in 1..Len(returns) |->
                IF isna(returns[i]) THEN NaN ELSE Fin(clip(returns[i].v))]

\* The sum of the returns, in place of their compounding.
RECURSIVE summed_return(_)
summed_return(rs) ==
    IF rs = <<>> THEN 0 ELSE Head(rs) + summed_return(Tail(rs))

\* ((1 + benchmark_returns / 100).prod() - 1) * 100
RECURSIVE Growth(_)
Growth(rs) ==
    IF rs = <<>> THEN 100 ELSE ((100 + Head(rs)) * Growth(Tail(rs))) \div 100

cumulative_return(rs) == Growth(rs) - 100

\* The body of the loop over the deals: the Benchmark_Return of one row.
\* Whatever is raised for the row is caught, and the row keeps nan.
benchmark_return(row, benchmark) ==
    LET start_date == row.minus
        end_date == row.plus
    IN IF isna(start_date) \/ isna(end_date) THEN NaN
       ELSE
       LET mask(j) == /\ date_leq(start_date, benchmark[j].Date)
                      /\ date_leq(benchmark[j].Date, end_date)
           event_benchmark == SelectSeq([j \in 1..Len(benchmark) |-> j], mask)
           benchmark_returns ==
               SelectSeq([j \in 1..Len(event_benchmark) |->
                             benchmark[event_benchmark[j]].Daily_return],
                         LAMBDA r : ~isna(r))
       IN IF event_benchmark = <<>> \/ benchmark_returns = <<>> THEN NaN
          ELSE Fin(cumulative_return([j \in 1..Len(benchmark_returns) |->
                                         benchmark_returns[j].v]))

\* Percent_Return - Benchmark_Return of two columns
minus_column(a, b) ==
    [i \in 1..Len(a) |-> IF isna(a[i]) \/ isna(b[i]) THEN NaN ELSE Fin(a[i].v - b[i].v)]

\* create_analysis_groups: the rows of each group, with their index.
group_names == <<"All Deals", "Green Target", "Brown Acquirer - Green Target">>

create_analysis_groups(stock) ==
    LET indexed == [i \in 1..Len(stock) |-> stock[i] @@ [idx |-> i - 1]]
    IN [g \in DOMAIN group_names |->
          SelectSeq(indexed,
                    LAMBDA r : CASE g = 1 -> TRUE
                                 [] g = 2 -> r.Target_Classification = "Green"
                                 [] g = 3 -> /\ r.Acquirer_Classification = "Brown"
                                             /\ r.Target_Classification = "Green")]

\* calculate_abnormal_returns for one group.  Abnormal_Before is the
\* difference of line 191, before it is winsorized.  The weight and the log
\* columns are made from columns these tables do not carry.
abnormal_returns_of(group_data, benchmark) ==
    LET n == Len(group_data)
        Benchmark_Return == [i \in 1..n |-> benchmark_return(group_data[i], benchmark)]
        Percent_Return == winsorize_returns([i \in 1..n |-> group_data[i].Percent_Return])
        before == minus_column(Percent_Return, Benchmark_Return)
        Abnormal_Return == winsorize_returns(before)
    IN [i \in 1..n |->
          [idx |-> group_data[i].idx,
           minus |-> group_data[i].minus,
           plus |-> group_data[i].plus,
           Percent_Return |-> Percent_Return[i],
           Benchmark_Return |-> Benchmark_Return[i],
           Abnormal_Before |-> before[i],
           Abnormal_Return |-> Abnormal_Return[i]]]

calculate_abnormal_returns(groups, benchmark) ==
    [g \in DOMAIN groups |-> abnormal_returns_of(groups[g], benchmark)]

\* The most deals and the most benchmark observations.
MaxEventDeals == 2

MaxBenchmark == 2

EventDay(d) == Date(2020, 3, d)

\* The deals tried: the window present, one date or the return missing, the
\* window of a single day, and the window upside down.
EventDeals ==
    { [minus |-> EventDay(2), plus |-> EventDay(3), Percent_Return |-> Fin(700),
       Target_Classification |-> "Green", Acquirer_Classification |-> "Brown"],
      [minus |-> EventDay(2), plus |-> EventDay(3), Percent_Return |-> NaN,
       Target_Classification |-> "Brown", Acquirer_Classification |-> "Brown"],
      [minus |-> NaT, plus |-> EventDay(3), Percent_Return |-> Fin(700),
       Target_Classification |-> "Green", Acquirer_Classification |-> "Green"],
      [minus |-> EventDay(2), plus |-> NaT, Percent_Return |-> Fin(300),
       Target_Classification |-> "Green", Acquirer_Classification |-> "Brown"],
      [minus |-> EventDay(3), plus |-> EventDay(3), Percent_Return |-> Fin(300),
       Target_Classification |-> "Brown", Acquirer_Classification |-> "Green"],
      [minus |-> EventDay(3), plus |-> EventDay(2), Percent_Return |-> Fin(700),
       Target_Classification |-> "Green", Acquirer_Classification |-> "Brown"] }

\* The observations tried: before the window, on its first day, on its last
\* day and after it.  load_data has dropped the rows with a missing value.
BenchmarkObservations ==
    { [Date |-> EventDay(1), Daily_return |-> Fin(100)],
      [Date |-> EventDay(2), Daily_return |-> Fin(100)],
      [Date |-> EventDay(3), Daily_return |-> Fin(200)],
      [Date |-> EventDay(4), Daily_return |-> Fin(200)] }

InitEvent ==
    /\ \E n \in 0..MaxEventDeals : stock_data \in [1..n -> EventDeals]
    /\ \E n \in 0..MaxBenchmark : benchmark_data \in [1..n -> BenchmarkObservations]
    /\ abnormal_results = [returned |-> FALSE, groups |-> <<>>]
    /\ epc = "loaded"
    /\ RetryIdle
    /\ ScriptIdle
    /\ KwIdle
    /\ ClassIdle
    /\ HandoffIdle
    /\ MergeIdle
    /\ RawIdle
    /\ CleanIdle
    /\ StdIdle
    /\ FetchIdle
    /\ CompanyIdle
    /\ ProbeIdle
    /\ NearestIdle
    /\ AnalysisIdle

\* main: groups = create_analysis_groups(stock_data), then
\* results = calculate_abnormal_returns(groups, benchmark_data)
CalculateAbnormalReturns ==
    /\ epc = "loaded"
    /\ abnormal_results' =
          [returned |-> TRUE,
           groups |-> calculate_abnormal_returns(create_analysis_groups(stock_data),
                                                 benchmark_data)]
    /\ epc' = "done"
    /\ UNCHANGED <<stock_data, benchmark_data>>
    /\ UNCHANGED <<retryVars, scriptVars, kwVars, classVars, handoffVars, mergeVars, rawVars, cleanVars, stdVars, fetchVars, companyVars, probeVars, nearestVars, analysisVars>>

NextEvent == CalculateAbnormalReturns

SpecEvent == InitEvent /\ [][NextEvent]_vars

\* The observations whose date lies in the window of a row, ends included.
InWindow(row) ==
    { j \in 1..Len(benchmark_data) :
         /\ date_leq(row.minus, benchmark_data[j].Date)
         /\ date_leq(benchmark_data[j].Date, row.plus) }

\* The growth of 100 over a set of observations.
RECURSIVE GrowthOver(_)
GrowthOver(S) ==
    IF S = {} THEN 100
    ELSE LET j == CHOOSE j \in S : TRUE
         IN (GrowthOver(S \ {j}) * (100 + benchmark_data[j].Daily_return.v)) \div 100

HasBenchmark(row) ==
    /\ row.minus.t = "date"
    /\ row.plus.t = "date"
    /\ InWindow(row) # {}

\* C14: every deal of every group is processed; a deal has a Benchmark_Return
\* exactly when both its dates are present and an observation lies in its
\* window, ends included; the value is the compounded return over exactly
\* those observations; the abnormal return before winsorizing is
\* Percent_Return minus Benchmark_Return, missing when either is missing.
C14_AbnormalReturns ==
    epc = "done" =>
        LET groups == create_analysis_groups(stock_data)
        IN \A g \in {1, 2, 3} :
              /\ Len(abnormal_results.groups[g]) = Len(groups[g])
              /\ \A i \in 1..Len(groups[g]) :
                    LET row == abnormal_results.groups[g][i]
                    IN /\ row.idx = groups[g][i].idx
                       /\ ~isna(row.Benchmark_Return) <=> HasBenchmark(row)
                       /\ HasBenchmark(row) =>
                             row.Benchmark_Return = Fin(GrowthOver(InWindow(row)) - 100)
                       /\ row.Abnormal_Before =
                             IF isna(row.Percent_Return) \/ isna(row.Benchmark_Return)
                             THEN NaN
                             ELSE Fin(row.Percent_Return.v - row.Benchmark_Return.v)

\* A deal with a missing date is followed by a deal whose window holds the
\* observations of its first and of its last day: 100 grows to 600.
C14_Witness ==
    /\ epc = "done"
    /\ Len(stock_data) = 2
    /\ isna(stock_data[1].minus)
    /\ isna(abnormal_results.groups[1][1].Benchmark_Return)
    /\ abnormal_results.groups[1][2].Benchmark_Return = Fin(500)
    /\ abnormal_results.groups[1][2].Abnormal_Before = Fin(200)

(***************************************************************************)
(* fetch_stock_prices.py (SCRIPTS/data_collection): process_company with   *)
(* its lookups, get_missing_tickers and main.  Prices are whole dollars;   *)
(* of the columns a 'Success' adds the two dates are left out of tables,   *)
(* being written beside the prices in the same way.                        *)
(***************************************************************************)

\* What the lookups of one company come to: the two trading days
\* ("day", "none" for None, "raise" for an exception that leaves
\* get_nearest_trading_day or yf.Ticker) and the two prices (None when
\* get_stock_price has none).
Lookups ==
    [before : {"day", "none", "raise"}, after : {"day", "none", "raise"},
     price_before : {None, Fin(0), Fin(10)}, price_after : {None, Fin(15)}]

\* The status with the prices not looked at.
status_without_prices(l) ==
    IF l.before = "raise" \/ l.after = "raise" THEN "Error"
    ELSE IF l.before = "none" \/ l.after = "none" THEN "No valid trading days found"
    ELSE "Success"

\* The status the lookups lead to, past the date check: actual_before and
\* actual_after are looked up first, the prices after both were found.
lookup_status(l) ==
    IF l.before = "raise" \/ l.after = "raise" THEN "Error"
    ELSE IF l.before = "none" \/ l.after = "none" THEN "No valid trading days found"
    ELSE IF l.price_before = None \/ l.price_after = None THEN "Could not get price data"
    ELSE "Success"

\* The keys a 'Success' adds to the result
success_fields(l) ==
    [T_minus_Date |-> "day",
     T_minus_Price |-> l.price_before,
     T_plus_Date |-> "day",
     T_plus_Price |-> l.price_after,
     Percent_Return |->
         IF l.price_before.v > 0
         THEN Fin(((l.price_after.v - l.price_before.v) * 100) \div l.price_before.v)
         ELSE None]

\* process_company(row_data, days_before, days_after): the whole result.
company_result(idx, row, l) ==
    LET result == process_company(idx, row, lookup_status(l))
    IN IF result.status = "Success" THEN result @@ success_fields(l) ELSE result

\* ticker in existing_df['Ticker'].values: nan is in no array
ticker_in(ticker, rows) ==
    ~isna(ticker) /\ \E j \in 1..Len(rows) : rows[j].Ticker = ticker

\* get_missing_tickers selecting every row
every_row(existing_rows, new_rows) == [i \in 1..Len(new_rows) |-> i]

\* get_missing_tickers(existing_df, new_df, days_before, days_after): the
\* places of the rows of new_df that are selected.  A row is judged by the
\* first row of existing_df that has its ticker.
get_missing_tickers(existing_rows, new_rows) ==
    LET missing(i) ==
            LET ticker == new_rows[i].Ticker
            IN IF ~ticker_in(ticker, existing_rows) THEN TRUE
               ELSE LET first == CHOOSE j \in 1..Len(existing_rows) :
                                    /\ existing_rows[j].Ticker = ticker
                                    /\ \A h \in 1..(j - 1) : existing_rows[h].Ticker # ticker
                        existing_row == existing_rows[first]
                    IN isna(existing_row.T_minus_Price) \/ isna(existing_row.T_plus_Price)
    IN SelectSeq([i \in 1..Len(new_rows) |-> i], missing)

\* A row of the tables main works on: the columns of the input, the status
\* and ticker columns and the price columns of a 'Success'.
FetchRow(label, Ticker, Announce_Date) ==
    [label |-> label, Ticker |-> Ticker, Announce_Date |-> Announce_Date,
     status |-> NaN, ticker |-> NaN,
     T_minus_Price |-> NaN, T_plus_Price |-> NaN, Percent_Return |-> NaN]

\* The value pandas stores for a result's value: None becomes nan.
stored(x) == IF x = None THEN NaN ELSE x

\* for key, value in res.items(): base_df.loc[res['index'], key] = value.
\* A label base_df does not have is added as a new last row.
write_result(base, res) ==
    LET idx == res.index
        present == \E k \in 1..Len(base) : base[k].label = idx
        rows == IF present THEN base ELSE Append(base, FetchRow(idx, NaN, NaN))
        keys == (DOMAIN res \ {"index", "company"}) \cap DOMAIN FetchRow(0, NaN, NaN)
        value(key) == IF key = "status" THEN Str(<<res.status>>) ELSE stored(res[key])
    IN [k \in 1..Len(rows) |->
          IF rows[k].label = idx
          THEN [c \in DOMAIN rows[k] |-> IF c \in keys THEN value(c) ELSE rows[k][c]]
          ELSE rows[k]]

RECURSIVE write_results(_, _)
write_results(base, rs) ==
    IF rs = <<>> THEN base ELSE write_results(write_result(base, Head(rs)), Tail(rs))

\* The most rows of the input, the most rows of the earlier output and the
\* most workers.
MaxFetchRows == 3

MaxExistingRows == 2

MaxWorkers == 2

\* The deals tried: two deals of one acquirer and a deal of another.
FetchDeals ==
    { <<TickerA, ADate>>,
      <<TickerA, Str(<<"2", "0", "2", "1", "-", "0", "6", "-", "0", "1">>)>>,
      <<TickerB, ADate>> }

\* The lookups tried in main: everything found, and no trading day before.
FetchLookups ==
    { [before |-> "day", after |-> "day", price_before |-> Fin(10), price_after |-> Fin(15)],
      [before |-> "none", after |-> "day", price_before |-> None, price_after |-> None] }

\* A row of the output of an earlier run: with both prices after a
\* 'Success', with none after another status.
ExistingRow(label, deal, priced) ==
    LET l == CHOOSE l \in FetchLookups : (l.before = "day") = priced
        res == company_result(label, FetchRow(label, deal[1], deal[2]), l)
    IN write_result(<<FetchRow(label, deal[1], deal[2])>>, res)[1]

InitFetch ==
    /\ \E n \in 1..MaxFetchRows : \E deals \in [1..n -> FetchDeals] :
          /\ \A i, j \in 1..n : i # j => deals[i] # deals[j]
          /\ new_df = [i \in 1..n |-> FetchRow(i - 1, deals[i][1], deals[i][2])]
    /\ \/ existing_df = [exists |-> FALSE, rows |-> <<>>]
       \/ \E n \in 1..MaxExistingRows : \E deals \in [1..n -> FetchDeals \X BOOLEAN] :
             /\ \A i, j \in 1..n : i # j => deals[i][1] # deals[j][1]
             /\ existing_df = [exists |-> TRUE,
                               rows |-> [i \in 1..n |->
                                           ExistingRow(i - 1, deals[i][1], deals[i][2])]]
    /\ workers \in 1..MaxWorkers
    /\ companies_to_process = <<>>
    /\ running = {}
    /\ fetched = <<>>
    /\ output_file = [written |-> FALSE, rows |-> <<>>]
    /\ message = ""
    /\ fpc = "start"
    /\ RetryIdle
    /\ ScriptIdle
    /\ KwIdle
    /\ ClassIdle
    /\ HandoffIdle
    /\ MergeIdle
    /\ RawIdle
    /\ CleanIdle
    /\ StdIdle
    /\ EventIdle
    /\ CompanyIdle
    /\ ProbeIdle
    /\ NearestIdle
    /\ AnalysisIdle

\* df_to_process: the places in new_df of the rows to process
df_to_process ==
    IF existing_df.exists THEN get_missing_tickers(existing_df.rows, new_df)
    ELSE [i \in 1..Len(new_df) |-> i]

\* base_df: the earlier output when there is one, a copy of the input otherwise
fetch_base_df == IF existing_df.exists THEN existing_df.rows ELSE new_df

\* main up to the submission: with an earlier output and nothing to process
\* it prints and returns; otherwise the rows of df_to_process are submitted,
\* numbered from 0 by reset_index.
FetchMain ==
    /\ fpc = "start"
    /\ IF existing_df.exists /\ Len(df_to_process) = 0
       THEN /\ message' = "No new data to process."
            /\ fpc' = "returned"
            /\ UNCHANGED companies_to_process
       ELSE /\ companies_to_process' =
                  [k \in 1..Len(df_to_process) |->
                      [index |-> k - 1, row |-> new_df[df_to_process[k]]]]
            /\ fpc' = "fetch"
            /\ UNCHANGED message
    /\ UNCHANGED <<new_df, existing_df, workers, running, fetched, output_file>>
    /\ UNCHANGED <<retryVars, scriptVars, kwVars, classVars, handoffVars, mergeVars, rawVars, cleanVars, stdVars, eventVars, companyVars, probeVars, nearestVars, analysisVars>>

\* A free worker of the executor takes the next company submitted.
StartCompany ==
    /\ fpc = "fetch"
    /\ companies_to_process # <<>>
    /\ Cardinality(running) < workers
    /\ running' = running \cup {Head(companies_to_process)}
    /\ companies_to_process' = Tail(companies_to_process)
    /\ UNCHANGED <<new_df, existing_df, workers, fetched, output_file, message, fpc>>
    /\ UNCHANGED <<retryVars, scriptVars, kwVars, classVars, handoffVars, mergeVars, rawVars, cleanVars, stdVars, eventVars, companyVars, probeVars, nearestVars, analysisVars>>

\* process_company returns for one of the companies running; as_completed
\* yields its future and main appends the result.
CompleteCompany ==
    /\ fpc = "fetch"
    /\ \E c \in running : \E l \in FetchLookups :
          /\ fetched' = Append(fetched, company_result(c.index, c.row, l))
          /\ running' = running \ {c}
    /\ UNCHANGED <<new_df, existing_df, workers, companies_to_process, output_file, message, fpc>>
    /\ UNCHANGED <<retryVars, scriptVars, kwVars, classVars, handoffVars, mergeVars, rawVars, cleanVars, stdVars, eventVars, companyVars, probeVars, nearestVars, analysisVars>>

\* All futures done: the results are written into base_df in the order they
\* arrived, and base_df is saved without its index.
UpdateAndSave ==
    /\ fpc = "fetch"
    /\ companies_to_process = <<>>
    /\ running = {}
    /\ output_file' =
          [written |-> TRUE,
           rows |-> LET base_df_rows == write_results(fetch_base_df, fetched)
                    IN [k \in 1..Len(base_df_rows) |->
                          [c \in DOMAIN base_df_rows[k] \ {"label"} |-> base_df_rows[k][c]]]]
    /\ fpc' = "saved"
    /\ UNCHANGED <<new_df, existing_df, workers, companies_to_process, running, fetched, message>>
    /\ UNCHANGED <<retryVars, scriptVars, kwVars, classVars, handoffVars, mergeVars, rawVars, cleanVars, stdVars, eventVars, companyVars, probeVars, nearestVars, analysisVars>>

NextFetch ==
    \/ FetchMain
    \/ StartCompany
    \/ CompleteCompany
    \/ UpdateAndSave

SpecFetch == InitFetch /\ [][NextFetch]_vars

\* A row without its label, as it stands in a file.
Unlabelled(row) == [c \in DOMAIN row \ {"label"} |-> row[c]]

\* The ticker of the row of new_df a result was fetched for.
FetchedFor(res) == new_df[df_to_process[res.index + 1]].Ticker

\* C15: with an output file of an earlier run, every result is written into
\* a row of that table that has the ticker of the company it was fetched
\* for, and the rows of the earlier table whose ticker no result was fetched
\* for are saved as they were.
C15_ResultsInTheirRows ==
    (fpc = "saved" /\ existing_df.exists) =>
        /\ \A k \in 1..Len(fetched) :
              \E j \in 1..Len(output_file.rows) :
                 /\ output_file.rows[j].Ticker = FetchedFor(fetched[k])
                 /\ output_file.rows[j].status = Str(<<fetched[k].status>>)
        /\ \A j \in 1..Len(existing_df.rows) :
              (\A k \in 1..Len(fetched) : FetchedFor(fetched[k]) # existing_df.rows[j].Ticker)
              => output_file.rows[j] = Unlabelled(existing_df.rows[j])

\* The results in the order the companies were submitted.
InSubmissionOrder ==
    [k \in 1..Len(fetched) |->
        fetched[CHOOSE h \in 1..Len(fetched) : fetched[h].index = k - 1]]

\* C16: whatever the number of workers and the order of completion, main
\* ends with exactly one result for every company submitted, and the table
\* saved is the one the results give when written in the order of
\* submission.
C16_OrderOfCompletion ==
    fpc = "saved" =>
        /\ Len(fetched) = Len(df_to_process)
        /\ \A k \in 1..Len(df_to_process) :
              Cardinality({ h \in 1..Len(fetched) : fetched[h].index = k - 1 }) = 1
        /\ output_file.rows =
              LET rows == write_results(fetch_base_df, InSubmissionOrder)
              IN [k \in 1..Len(rows) |-> Unlabelled(rows[k])]

\* The deal of row i of the input has both prices in the earlier output.
DealPriced(i) ==
    \E j \in 1..Len(existing_df.rows) :
       /\ existing_df.rows[j].Ticker = new_df[i].Ticker
       /\ existing_df.rows[j].Announce_Date = new_df[i].Announce_Date
       /\ ~isna(existing_df.rows[j].T_minus_Price)
       /\ ~isna(existing_df.rows[j].T_plus_Price)

\* Row i of the input is among the rows get_missing_tickers returned.
Selected(i) ==
    /\ fpc = "fetch"
    /\ \E k \in 1..Len(companies_to_process) : companies_to_process[k].row = new_df[i]

\* C17: with an earlier output, get_missing_tickers selects the rows of the
\* input whose deal has no prices in it, and none whose deal has both, also
\* when a ticker has several deals.
C17_MissingDealsSelected ==
    (/\ existing_df.exists
     /\ \/ fpc = "returned"
        \/ fpc = "fetch" /\ running = {} /\ fetched = <<>>)
    => \A i \in 1..Len(new_df) : Selected(i) <=> ~DealPriced(i)

\* Every ticker of the input is in the earlier output, with both prices in
\* every row it has there.
EveryTickerPriced ==
    /\ existing_df.exists
    /\ \A i \in 1..Len(new_df) :
          /\ ticker_in(new_df[i].Ticker, existing_df.rows)
          /\ \A j \in 1..Len(existing_df.rows) :
                existing_df.rows[j].Ticker = new_df[i].Ticker
                => /\ ~isna(existing_df.rows[j].T_minus_Price)
                   /\ ~isna(existing_df.rows[j].T_plus_Price)

\* C18: when every ticker has both prices in the earlier output, main
\* submits and fetches nothing, prints 'No new data to process.' and does
\* not write the output file.
C18_NothingToProcess ==
    EveryTickerPriced =>
        /\ fpc \in {"start", "returned"}
        /\ fpc = "returned" => message = "No new data to process."
        /\ companies_to_process = <<>>
        /\ running = {}
        /\ fetched = <<>>
        /\ ~output_file.written

\* main has returned early on an input of two deals of one priced acquirer.
C18_Witness ==
    /\ EveryTickerPriced
    /\ Len(new_df) = 2
    /\ fpc = "returned"
    /\ message = "No new data to process."
    /\ ~output_file.written

(***************************************************************************)
(* One call of process_company, over the tickers, dates and lookups tried. *)
(***************************************************************************)

\* The largest index tried.
MaxIndex == 1

CompanyDates == {NaN, ADate, Str(<<"s", "o", "o", "n">>)}

InitCompany ==
    /\ \E k \in 0..MaxIndex : \E t \in HandoffTickers : \E d \in CompanyDates :
          row_data = <<k, FetchRow(k, t, d)>>
    /\ lookups = <<>>
    /\ company_out = [returned |-> FALSE, result |-> <<>>]
    /\ ppc = "called"
    /\ RetryIdle
    /\ ScriptIdle
    /\ KwIdle
    /\ ClassIdle
    /\ HandoffIdle
    /\ MergeIdle
    /\ RawIdle
    /\ CleanIdle
    /\ StdIdle
    /\ EventIdle
    /\ FetchIdle
    /\ ProbeIdle
    /\ NearestIdle
    /\ AnalysisIdle

\* process_company(row_data, days_before, days_after) runs to its return.
ProcessOneCompany ==
    /\ ppc = "called"
    /\ \E l \in Lookups :
          /\ lookups' = l
          /\ company_out' = [returned |-> TRUE,
                             result |-> company_result(row_data[1], row_data[2], l)]
    /\ ppc' = "returned"
    /\ UNCHANGED row_data
    /\ UNCHANGED <<retryVars, scriptVars, kwVars, classVars, handoffVars, mergeVars, rawVars, cleanVars, stdVars, eventVars, fetchVars, probeVars, nearestVars, analysisVars>>

NextCompany == ProcessOneCompany

SpecCompany == InitCompany /\ [][NextCompany]_vars

Statuses ==
    {"Invalid ticker", "Missing announcement date", "Invalid date format",
     "No valid trading days found", "Could not get price data", "Success", "Error"}

\* Both trading days and both prices were obtained.
Obtained(l) ==
    /\ l.before = "day"
    /\ l.after = "day"
    /\ l.price_before # None
    /\ l.price_after # None

\* C19: process_company returns one result with the index of its row and
\* one of the seven statuses; past the checks of ticker and date the status
\* is 'Success' exactly when both trading days and both prices were
\* obtained; the date, price and return fields are in a 'Success' result and
\* in no other.
C19_OneResultPerCompany ==
    ppc = "returned" =>
        LET result == company_out.result
            checked == result.status \notin {"Invalid ticker", "Missing announcement date",
                                             "Invalid date format", "Error"}
        IN /\ company_out.returned
           /\ result.index = row_data[1]
           /\ result.status \in Statuses
           /\ result.status = "Success" => Obtained(lookups)
           /\ (checked /\ Obtained(lookups)) => result.status = "Success"
           /\ DOMAIN result =
                 {"index", "status", "ticker"} \cup
                 (IF result.status = "Success"
                  THEN {"T_minus_Date", "T_minus_Price", "T_plus_Date", "T_plus_Price",
                        "Percent_Return"}
                  ELSE {})

\* A call that came to 'Success' with a return of 50 per cent.
C19_Witness ==
    /\ ppc = "returned"
    /\ company_out.result.status = "Success"
    /\ company_out.result.index = row_data[1]
    /\ company_out.result.Percent_Return = Fin(50)

(***************************************************************************)
(* get_nearest_trading_day with get_stock_data_with_retry inside it, the   *)
(* same loop in both copies of fetch_stock_prices.py.  Days are numbered;  *)
(* day d falls on weekday d % 7, Monday being 0.                           *)
(***************************************************************************)

\* max_attempts of get_nearest_trading_day
max_attempts == 10

\* The days of the window a probe asks for
window_days == 5

\* get_valid_date(target_date): a date in the future gives the most recent
\* weekday up to now.
RECURSIVE last_weekday(_)
last_weekday(d) == IF d % 7 > 4 THEN last_weekday(d - 1) ELSE d

get_valid_date(target_date, now) ==
    IF target_date > now THEN last_weekday(now) ELSE target_date

\* The probe date left where it is.
same_day(d, dir) == d

\* current_date -= timedelta(days=1), or += for the forward search
next_day(d, dir) == IF dir = "backward" THEN d - 1 ELSE d + 1

TargetDays == {100, 110}

NowDays == {103, 104, 105}

\* The copies of the script that have get_nearest_trading_day.
ProbeCopies == {"legacy", "collection"}

InitProbe ==
    /\ probe_copy \in ProbeCopies
    /\ direction \in {"backward", "forward"}
    /\ \E target_date \in TargetDays : \E now \in NowDays :
          /\ start_day = get_valid_date(target_date, now)
          /\ current_date = get_valid_date(target_date, now)
    /\ probe_i = 0
    /\ retry_attempt = 0
    /\ history_calls = 0
    /\ found = FALSE
    /\ nearest = [returned |-> FALSE, value |-> None]
    /\ gpc = "probing"
    /\ RetryIdle
    /\ ScriptIdle
    /\ KwIdle
    /\ ClassIdle
    /\ HandoffIdle
    /\ MergeIdle
    /\ RawIdle
    /\ CleanIdle
    /\ StdIdle
    /\ EventIdle
    /\ FetchIdle
    /\ CompanyIdle
    /\ NearestIdle
    /\ AnalysisIdle

\* The probe is over without a day: the date moves on, and after the last
\* probe the function returns None.
ProbeFailed ==
    /\ current_date' = next_day(current_date, direction)
    /\ probe_i' = probe_i + 1
    /\ retry_attempt' = 0
    /\ IF probe_i + 1 = max_attempts
       THEN /\ nearest' = [returned |-> TRUE, value |-> None]
            /\ gpc' = "returned"
       ELSE UNCHANGED <<nearest, gpc>>

\* ticker_obj.history raises: get_stock_data_with_retry backs off and tries
\* again, and after the last attempt returns None, which ends the probe.
HistoryRaises ==
    /\ gpc = "probing"
    /\ history_calls' = history_calls + 1
    /\ IF retry_attempt = DefaultMaxRetries - 1
       THEN ProbeFailed
       ELSE /\ retry_attempt' = retry_attempt + 1
            /\ UNCHANGED <<current_date, probe_i, nearest, gpc>>
    /\ UNCHANGED <<probe_copy, direction, start_day, found>>
    /\ UNCHANGED <<retryVars, scriptVars, kwVars, classVars, handoffVars, mergeVars, rawVars, cleanVars, stdVars, eventVars, fetchVars, companyVars, nearestVars, analysisVars>>

\* ticker_obj.history returns a table without rows, which ends the probe.
HistoryEmpty ==
    /\ gpc = "probing"
    /\ history_calls' = history_calls + 1
    /\ ProbeFailed
    /\ UNCHANGED <<probe_copy, direction, start_day, found>>
    /\ UNCHANGED <<retryVars, scriptVars, kwVars, classVars, handoffVars, mergeVars, rawVars, cleanVars, stdVars, eventVars, fetchVars, companyVars, nearestVars, analysisVars>>

\* ticker_obj.history returns rows: the last day of the window asked for in
\* the backward search, the first in the forward search, is returned.
HistoryData ==
    /\ gpc = "probing"
    /\ history_calls' = history_calls + 1
    /\ found' = TRUE
    /\ \E d \in 0..window_days :
          nearest' = [returned |-> TRUE,
                      value |-> Fin(IF direction = "backward" THEN current_date - d
                                    ELSE current_date + d)]
    /\ gpc' = "returned"
    /\ UNCHANGED <<probe_copy, direction, start_day, current_date, probe_i, retry_attempt>>
    /\ UNCHANGED <<retryVars, scriptVars, kwVars, classVars, handoffVars, mergeVars, rawVars, cleanVars, stdVars, eventVars, fetchVars, companyVars, nearestVars, analysisVars>>

NextProbe ==
    \/ HistoryRaises
    \/ HistoryEmpty
    \/ HistoryData

SpecProbe == InitProbe /\ [][NextProbe]_vars

\* Every history call returns or raises, and the loop goes on after it.
SpecProbeFair == SpecProbe /\ WF_vars(NextProbe)

\* The day probe number i looks at.
ProbeDay(i) == IF direction = "backward" THEN start_day - i ELSE start_day + i

ProbeBounds ==
    /\ probe_i <= max_attempts
    /\ history_calls <= 3 * max_attempts
    /\ current_date = ProbeDay(probe_i)
    /\ gpc = "probing" => probe_i < max_attempts
    /\ gpc = "returned" =>
          /\ nearest.returned
          /\ nearest.value = None <=> ~found
          /\ nearest.value = None => probe_i = max_attempts

\* C20: get_nearest_trading_day terminates; it makes at most 10 probes, each
\* one day further in the search direction than the one before, and at most
\* 30 history calls; it returns None exactly when no probe got a table with
\* rows, which takes all 10 probes.
C20_NearestTradingDayTerminates ==
    /\ []ProbeBounds
    /\ <>(gpc = "returned")

\* All ten probes failed after three history calls each.
C20_Witness ==
    /\ gpc = "returned"
    /\ nearest.value = None
    /\ probe_i = 10
    /\ history_calls = 30

(***************************************************************************)
(* get_nearest_trading_day over a fixed set of days with data.             *)
(* ticker_obj.history(start, end) of yfinance returns the rows from start  *)
(* on and before end: the end date is exclusive.                           *)
(***************************************************************************)

\* The days a probe at cur asks history for: start_date up to, not
\* including, end_date.
window(cur, dir) ==
    IF dir = "backward" THEN (cur - window_days)..(cur - 1)
    ELSE cur..(cur + window_days - 1)

\* The days with data, as distances from the validated target date.
TradingOffsets == {-6, -1, 0, 1, 6}

InitNearest ==
    /\ probe_copy \in ProbeCopies
    /\ direction \in {"backward", "forward"}
    /\ \E target_date \in TargetDays : \E now \in NowDays :
          /\ start_day = get_valid_date(target_date, now)
          /\ current_date = get_valid_date(target_date, now)
          /\ \E offsets \in SUBSET TradingOffsets :
                trading_days = { get_valid_date(target_date, now) + o : o \in offsets }
    /\ npc = "search"
    /\ probe_i = 0
    /\ retry_attempt = 0
    /\ history_calls = 0
    /\ found = FALSE
    /\ nearest = [returned |-> FALSE, value |-> None]
    /\ gpc = "probing"
    /\ RetryIdle
    /\ ScriptIdle
    /\ KwIdle
    /\ ClassIdle
    /\ HandoffIdle
    /\ MergeIdle
    /\ RawIdle
    /\ CleanIdle
    /\ StdIdle
    /\ EventIdle
    /\ FetchIdle
    /\ CompanyIdle
    /\ AnalysisIdle

\* ticker_obj.history returns the rows of the days with data in the window
\* asked for: with none the probe ends, otherwise hist.index[-1] is returned
\* in the backward search and hist.index[0] in the forward search.
HistoryAnswers ==
    /\ gpc = "probing"
    /\ npc = "search"
    /\ history_calls' = history_calls + 1
    /\ LET hist == trading_days \cap window(current_date, direction)
       IN IF hist = {}
          THEN /\ ProbeFailed
               /\ UNCHANGED found
          ELSE /\ found' = TRUE
               /\ nearest' = [returned |-> TRUE,
                              value |-> Fin(IF direction = "backward"
                                            THEN CHOOSE t \in hist : \A u \in hist : u <= t
                                            ELSE CHOOSE t \in hist : \A u \in hist : t <= u)]
               /\ gpc' = "returned"
               /\ UNCHANGED <<current_date, probe_i, retry_attempt>>
    /\ UNCHANGED <<probe_copy, direction, start_day>>
    /\ UNCHANGED <<trading_days, npc>>
    /\ UNCHANGED <<retryVars, scriptVars, kwVars, classVars, handoffVars, mergeVars, rawVars, cleanVars, stdVars, eventVars, fetchVars, companyVars, analysisVars>>

NextNearest ==
    \/ HistoryRaises
    \/ HistoryAnswers

SpecNearest == InitNearest /\ [][NextNearest]_vars

\* No history call raised: every probe made one call.
NoCallRaised == history_calls = probe_i + (IF found THEN 1 ELSE 0)

\* The days with data on the side searched, within the days the ten probes
\* ask for.
DaysSearched ==
    IF direction = "backward"
    THEN { t \in trading_days : t <= start_day /\ t >= start_day - (max_attempts - 1) - window_days }
    ELSE { t \in trading_days : t >= start_day /\ t <= start_day + (max_attempts - 1) + window_days - 1 }

\* C21: when no history call fails, the backward search returns the latest
\* day with data on or before the validated target date and the forward
\* search the earliest day with data on or after it, whenever there is such
\* a day among the days searched.
C21_NearestDayWithData ==
    (gpc = "returned" /\ npc = "search" /\ NoCallRaised /\ DaysSearched # {}) =>
        nearest.value =
            Fin(IF direction = "backward"
                THEN CHOOSE t \in DaysSearched : \A u \in DaysSearched : u <= t
                ELSE CHOOSE t \in DaysSearched : \A u \in DaysSearched : t <= u)

(***************************************************************************)
(* The statistics of the event study: perform_comprehensive_analysis       *)
(* (event_study_analysis.py) and perform_heteroskedasticity_tests          *)
(* (heteroskedasticity_tests.py).  Of every statistic the deals that enter *)
(* it are kept, by their index.                                            *)
(***************************************************************************)

\* Series.dropna(): the places kept
dropna_places(column) == { i \in 1..Len(column) : ~isna(column[i]) }

\* Series.fillna(0)
fillna0(column) == [i \in 1..Len(column) |-> IF isna(column[i]) THEN Fin(0) ELSE column[i]]

\* np.log(Carbon_Intensity.fillna(0) + 1) of calculate_abnormal_returns: the
\* logarithm is kept as the number it is taken of.
log_carbon_intensity(column) ==
    [i \in 1..Len(column) |-> [t |-> "log", v |-> fillna0(column)[i].v + 1]]

\* The analysis of one group that has an abnormal return: the deals of
\* 'Sample Size', mean and t-test, and the deals of the correlation and of
\* the regression on Log_Carbon_Intensity where these are computed.
analysis_of(group_data, ci_column) ==
    LET n == Len(group_data)
        idx(S) == { group_data[i].idx : i \in S }
        Abnormal_Return == [i \in 1..n |-> group_data[i].Abnormal_Return]
        abnormal_returns == dropna_places(Abnormal_Return)
        has_carbon == ci_column # <<>>
        log_ci == IF has_carbon
                  THEN fillna0(log_carbon_intensity([i \in 1..n |-> ci_column[group_data[i].idx + 1]]))
                  ELSE <<>>
        abnormal_returns_for_corr == fillna0(Abnormal_Return)
        valid_data == { i \in 1..n : ~(isna(log_ci[i]) \/ isna(abnormal_returns_for_corr[i])) }
    IN [sample |-> idx(abnormal_returns),
        sample_size |-> Cardinality(abnormal_returns),
        correlation |-> has_carbon /\ Cardinality(valid_data) > 1,
        regression |-> has_carbon /\ n > 2,
        carbon_deals |-> IF has_carbon THEN idx(valid_data) ELSE {}]

\* perform_comprehensive_analysis(results): the groups without an abnormal
\* return are passed over.
perform_comprehensive_analysis(groups, ci_column) ==
    [g \in { g \in DOMAIN groups :
                \E i \in 1..Len(groups[g]) : ~isna(groups[g][i].Abnormal_Return) } |->
        analysis_of(groups[g], ci_column)]

\* perform_heteroskedasticity_tests(group_data): the deals of the regression
\* of Abnormal_Return.fillna(0) on Log_Carbon_Intensity.fillna(0); None
\* without the column.
perform_heteroskedasticity_tests(group_data, ci_column) ==
    IF ci_column = <<>> THEN None
    ELSE LET y == fillna0([i \in 1..Len(group_data) |-> group_data[i].Abnormal_Return])
         IN [t |-> "deals", v |-> { group_data[i].idx : i \in dropna_places(y) }]

CarbonValues == {NaN, Fin(0), Fin(3)}

InitAnalysis ==
    /\ \E n \in 0..MaxEventDeals :
          /\ stock_data \in [1..n -> EventDeals]
          /\ \/ carbon_intensity = <<>>
             \/ n > 0 /\ carbon_intensity \in [1..n -> CarbonValues]
    /\ \E n \in 0..MaxBenchmark : benchmark_data \in [1..n -> BenchmarkObservations]
    /\ abnormal_results = [returned |-> FALSE, groups |-> <<>>]
    /\ epc = "loaded"
    /\ analysis_results = <<>>
    /\ heteroskedasticity_results = <<>>
    /\ xpc = "start"
    /\ RetryIdle
    /\ ScriptIdle
    /\ KwIdle
    /\ ClassIdle
    /\ HandoffIdle
    /\ MergeIdle
    /\ RawIdle
    /\ CleanIdle
    /\ StdIdle
    /\ FetchIdle
    /\ CompanyIdle
    /\ ProbeIdle
    /\ NearestIdle

\* event_study_analysis.py goes on from the abnormal returns to the analysis.
PerformComprehensiveAnalysis ==
    /\ epc = "done"
    /\ xpc = "start"
    /\ analysis_results' = perform_comprehensive_analysis(abnormal_results.groups, carbon_intensity)
    /\ xpc' = "analysed"
    /\ UNCHANGED <<carbon_intensity, heteroskedasticity_results>>
    /\ UNCHANGED <<retryVars, scriptVars, kwVars, classVars, handoffVars, mergeVars, rawVars, cleanVars, stdVars, eventVars, fetchVars, companyVars, probeVars, nearestVars>>

\* heteroskedasticity_tests.py: every group of the saved analysis is read
\* back and tested; a group without a result is left out.
PerformHeteroskedasticityTests ==
    /\ xpc = "analysed"
    /\ heteroskedasticity_results' =
          [g \in { g \in DOMAIN analysis_results :
                      perform_heteroskedasticity_tests(abnormal_results.groups[g],
                                                       carbon_intensity) # None } |->
              perform_heteroskedasticity_tests(abnormal_results.groups[g], carbon_intensity).v]
    /\ xpc' = "tested"
    /\ UNCHANGED <<carbon_intensity, analysis_results>>
    /\ UNCHANGED <<retryVars, scriptVars, kwVars, classVars, handoffVars, mergeVars, rawVars, cleanVars, stdVars, eventVars, fetchVars, companyVars, probeVars, nearestVars>>

NextAnalysis ==
    \/ CalculateAbnormalReturns
    \/ PerformComprehensiveAnalysis
    \/ PerformHeteroskedasticityTests

SpecAnalysis == InitAnalysis /\ [][NextAnalysis]_vars

\* C22: in every group the deals of the carbon-intensity correlation and
\* regression, and the deals of the regression of the heteroskedasticity
\* tests, are the deals counted in 'Sample Size': those with an abnormal
\* return.
C22_SameDealsInEveryStatistic ==
    /\ xpc \in {"analysed", "tested"} =>
          \A g \in DOMAIN analysis_results :
             LET a == analysis_results[g]
             IN /\ a.sample_size = Cardinality(a.sample)
                /\ a.sample = { abnormal_results.groups[g][i].idx :
                                  i \in { i \in 1..Len(abnormal_results.groups[g]) :
                                            ~isna(abnormal_results.groups[g][i].Abnormal_Return) } }
                /\ (a.correlation \/ a.regression) => a.carbon_deals = a.sample
    /\ xpc = "tested" =>
          \A g \in DOMAIN heteroskedasticity_results :
             heteroskedasticity_results[g] = analysis_results[g].sample

====
